---------------------------- MODULE Spec2Model ----------------------------
(***************************************************************************)
(* LiteCoreDB REPL: the command router (src/src/router.ts), its helpers    *)
(* and the commands it dispatches to.                                      *)
(*                                                                         *)
(* Text is modelled as a sequence of one-character strings, so that        *)
(* trimming, splitting, case folding and prefix matching are computed      *)
(* character by character, the way the JavaScript string and RegExp        *)
(* operations compute them.  A fixed literal of the source (the text of a  *)
(* console.log call, a description) is kept as one multi-character chunk.  *)
(***************************************************************************)
EXTENDS Integers, Sequences, FiniteSets, TLC

(***************************************************************************)
(* Characters                                                              *)
(***************************************************************************)
SP == " "
TAB == "\t"
\* The characters /\s/ and String.prototype.trim treat as white space.
WhiteSpace == {SP, TAB}

UpperLetters ==
  <<"A","B","C","D","E","F","G","H","I","J","K","L","M",
    "N","O","P","Q","R","S","T","U","V","W","X","Y","Z">>
LowerLetters ==
  <<"a","b","c","d","e","f","g","h","i","j","k","l","m",
    "n","o","p","q","r","s","t","u","v","w","x","y","z">>
UpperSet == {UpperLetters[i] : i \in 1..26}
LowerSet == {LowerLetters[i] : i \in 1..26}
LowerOf == [c \in UpperSet |-> LowerLetters[CHOOSE i \in 1..26 : UpperLetters[i] = c]]
UpperOf == [c \in LowerSet |-> UpperLetters[CHOOSE i \in 1..26 : LowerLetters[i] = c]]

LowerChar(c) == IF c \in UpperSet THEN LowerOf[c] ELSE c
UpperChar(c) == IF c \in LowerSet THEN UpperOf[c] ELSE c

\* String.prototype.toLowerCase
RECURSIVE toLowerCase(_)
toLowerCase(s) ==
  IF s = <<>> THEN <<>> ELSE <<LowerChar(Head(s))>> \o toLowerCase(Tail(s))

\* String.prototype.toUpperCase
RECURSIVE toUpperCase(_)
toUpperCase(s) ==
  IF s = <<>> THEN <<>> ELSE <<UpperChar(Head(s))>> \o toUpperCase(Tail(s))

(***************************************************************************)
(* String operations of the JavaScript runtime used by the router          *)
(***************************************************************************)
RECURSIVE trimStart(_)
trimStart(s) ==
  IF s = <<>> THEN s
  ELSE IF Head(s) \in WhiteSpace THEN trimStart(Tail(s)) ELSE s

RECURSIVE trimEnd(_)
trimEnd(s) ==
  IF s = <<>> THEN s
  ELSE IF s[Len(s)] \in WhiteSpace THEN trimEnd(SubSeq(s, 1, Len(s) - 1)) ELSE s

\* String.prototype.trim
trim(s) == trimEnd(trimStart(s))

\* String.prototype.split(/\s+/): the pieces between the maximal white-space
\* runs; "" gives [""], leading or trailing white space gives an empty piece.
RECURSIVE splitFrom(_, _, _)
splitFrom(s, cur, acc) ==
  IF s = <<>> THEN Append(acc, cur)
  ELSE IF Head(s) \in WhiteSpace
       THEN splitFrom(trimStart(s), <<>>, Append(acc, cur))
       ELSE splitFrom(Tail(s), Append(cur, Head(s)), acc)

splitWs(s) == splitFrom(s, <<>>, <<>>)

\* Array.prototype.join(" ")
RECURSIVE joinSp(_)
joinSp(ts) ==
  IF ts = <<>> THEN <<>>
  ELSE IF Len(ts) = 1 THEN ts[1]
  ELSE ts[1] \o <<SP>> \o joinSp(Tail(ts))

\* String.prototype.slice(n): the text from offset n on.
slice(s, n) == SubSeq(s, n + 1, Len(s))

\* String.prototype.startsWith
startsWith(s, p) == Len(p) <= Len(s) /\ SubSeq(s, 1, Len(p)) = p

(***************************************************************************)
(* helpers/strings.ts, helpers/cli/help.ts                                 *)
(***************************************************************************)
\* normalizeName: name.replace(/^\./, "").toLowerCase()
normalizeName(name) ==
  toLowerCase(IF name # <<>> /\ Head(name) = "." THEN Tail(name) ELSE name)

HelpTokens ==
  { <<"h","e","l","p">>, <<"-","-","h","e","l","p">>, <<"-","h">>, <<"?">> }

\* isHelpToken: /^(help|--help|-h|\?)$/i
isHelpToken(t) == toLowerCase(t) \in HelpTokens

(***************************************************************************)
(* helpers/distance.ts                                                     *)
(***************************************************************************)
\* Variant: the substitution is left out of the minimum.
Min3_noSubstitution(x, y, z) == IF x <= y THEN x ELSE y

Min3(x, y, z) ==
  IF x <= y THEN (IF x <= z THEN x ELSE z) ELSE (IF y <= z THEN y ELSE z)

\* One row of the table: row holds dp[i][0..j-1] (row[k] is dp[i][k-1]).
RECURSIVE levRow(_, _, _, _)
levRow(row, prevRow, ch, b) ==
  IF Len(row) = Len(b) + 1 THEN row
  ELSE LET j == Len(row)
           cost == IF ch = b[j] THEN 0 ELSE 1
       IN levRow(Append(row, Min3(prevRow[j + 1] + 1, row[j] + 1, prevRow[j] + cost)),
                 prevRow, ch, b)

RECURSIVE levRows(_, _, _, _)
levRows(prevRow, i, a, b) ==
  IF i > Len(a) THEN prevRow
  ELSE levRows(levRow(<<i>>, prevRow, a[i], b), i + 1, a, b)

\* Variant: the early return for an empty b gives 0.
levenshtein_emptyB(a, b) ==
  IF Len(a) = 0 THEN Len(b)
  ELSE IF Len(b) = 0 THEN 0
  ELSE levRows([j \in 1..(Len(b) + 1) |-> j - 1], 1, a, b)[Len(b) + 1]

levenshtein(a, b) ==
  IF Len(a) = 0 THEN Len(b)
  ELSE IF Len(b) = 0 THEN Len(a)
  ELSE levRows([j \in 1..(Len(b) + 1) |-> j - 1], 1, a, b)[Len(b) + 1]

(***************************************************************************)
(* Commands (interfaces/command.ts) and the registries                     *)
(*                                                                         *)
(* A command is a record: its canonical name (name()), its one-line        *)
(* description, the lines its help() prints, and impl, which names the     *)
(* class whose execute() runs.                                             *)
(***************************************************************************)
ExitCommand ==
  [ name        |-> <<".","e","x","i","t">>,
    description |-> <<"Exit the current REPL session">>,
    helpText    |-> << <<"Exit the current REPL session">>, <<"\nExamples:">>,
                       <<"  .exit">>, <<"  help .exit">>, <<"  .exit --help">> >>,
    impl        |-> "ExitCommand" ]

ClearCommand ==
  [ name        |-> <<".","c","l","e","a","r">>,
    description |-> <<"Clear the console">>,
    helpText    |-> << <<"Clear the console">>, <<"\nExamples:">>,
                       <<"  .clear">>, <<"  help .clear">>, <<"  .clear --help">> >>,
    impl        |-> "ClearCommand" ]

AttachCommand ==
  [ name        |-> <<"A","T","T","A","C","H"," ","D","A","T","A","B","A","S","E">>,
    description |-> <<"Attach to a database for the current session using the provided path">>,
    helpText    |-> << <<"ATTACH DATABASE <path>">>, <<"\nExamples:">>,
                       <<"  ATTACH DATABASE ./db.db">>, <<"  help ATTACH DATABASE">>,
                       <<"  ATTACH DATABASE --help">> >>,
    impl        |-> "AttachCommand" ]

\* Any other implementation of the Command interface: execute(args) "may fail".
\* Two of them carry names that collide with ATTACH DATABASE: one is a
\* one-word prefix of it, one differs from it in letter case only.  A third
\* has a name whose first word is two letters long.
OtherCommand(name, tag) ==
  [ name        |-> name,
    description |-> <<"Other command ", tag>>,
    helpText    |-> << <<"Help of other command ", tag>> >>,
    impl        |-> "Command" ]

AttachOnly == OtherCommand(<<"A","T","T","A","C","H">>, "1")
AttachLower ==
  OtherCommand(<<"a","t","t","a","c","h"," ","d","a","t","a","b","a","s","e">>, "2")
DbInfo == OtherCommand(<<"D","B"," ","I","N","F","O">>, "3")

\* The registries a Router is constructed over: SystemCommands and
\* DatabaseCommands as shipped, with .clear registered too (README), and
\* registries that exercise the router's precedence rules.
Registries ==
  { [sys |-> <<ExitCommand>>,               db |-> <<AttachCommand>>],
    [sys |-> <<ExitCommand, ClearCommand>>, db |-> <<AttachCommand>>],
    [sys |-> <<ExitCommand>>,               db |-> <<AttachOnly, AttachCommand, AttachLower, DbInfo>>] }

(***************************************************************************)
(* State                                                                   *)
(***************************************************************************)
VARIABLES
  systemCommands,    \* Router.systemCommands
  databaseCommands,  \* Router.databaseCommands
  line,              \* the input line: being typed, then the one last routed
  nargs,             \* how many argument pieces the line has
  status,            \* "idle" | "typing" | "done": done = Router.command returned
  stdout,            \* console.log lines of the last Router.command call
  stderr,            \* console.error lines of the last Router.command call
  calls,             \* help()/execute(args) invocations made by the last call
  running,           \* FALSE once process.exit was called
  session,           \* the session object (session.ts)
  files,             \* the regular files on disk: absolute path -> bytes
  requested,         \* the page size a header is requested with
  header,            \* the buffer createHeader returned, as altered since
  valid,             \* what isValidHeader(header) returned, "none" before the call
  codecStep,         \* "start" | "created" | "validated"
  alters,            \* how many times header was altered
  lastOp,            \* the function last called on the files, and its argument
  thrown,            \* the message of the Error that call threw, <<>> if none
  before,            \* the session and the files as they were before that call
  ops,               \* how many such calls were made
  openFds,           \* how many file descriptors those calls opened, and how many they closed
  logFile,           \* the monitoring log: whether it exists, and its lines
  pending,           \* the payloads of fs.appendFile calls that have not completed
  logged,            \* the rows logMetrics was called with, in the order of the calls
  lev                \* the strings levenshtein is applied to, and what it returned

routerVars == <<systemCommands, databaseCommands, line, nargs, status,
                stdout, stderr, calls, running, session, files>>

codecVars == <<requested, header, valid, codecStep, alters>>

fileVars == <<lastOp, thrown, before, ops, openFds>>

monitorVars == <<logFile, pending, logged>>

levVars == <<lev>>

vars == <<routerVars, codecVars, fileVars, monitorVars, levVars>>

\* Router.commands = [...sys, ...db]
commands == systemCommands \o databaseCommands

(***************************************************************************)
(* Router (router.ts)                                                      *)
(***************************************************************************)
\* Variant: names and query compared after normalization, so that the
\* leading marker need not be typed.
reExactTest_normalized(name, query) == normalizeName(query) = normalizeName(name)

\* new RegExp(`^${escapeRegex(name)}$`, 'i').test(query)
reExactTest(name, query) == toLowerCase(query) = toLowerCase(name)

\* findCommandByExactName: index into commands of the first match, 0 = undefined
RECURSIVE exactLoop(_, _)
exactLoop(i, query) ==
  IF i > Len(commands) THEN 0
  ELSE IF reExactTest(commands[i].name, query) THEN i
  ELSE exactLoop(i + 1, query)

findCommandByExactName(token) == exactLoop(1, trim(token))

\* Variant: the regular expression without its 'i' flag.
reStartMatch_caseSensitive(name, input) ==
  IF /\ Len(name) <= Len(input)
     /\ SubSeq(input, 1, Len(name)) = name
     /\ (Len(input) = Len(name) \/ input[Len(name) + 1] \in WhiteSpace)
  THEN << SubSeq(input, 1, Len(name)) >>
  ELSE <<>>

\* Variant: the regular expression built from the normalized name, so that
\* the leading marker need not be typed.
reStartMatch_normalized(name, input) ==
  IF /\ Len(normalizeName(name)) <= Len(input)
     /\ toLowerCase(SubSeq(input, 1, Len(normalizeName(name)))) = normalizeName(name)
     /\ (Len(input) = Len(normalizeName(name))
         \/ input[Len(normalizeName(name)) + 1] \in WhiteSpace)
  THEN << SubSeq(input, 1, Len(normalizeName(name))) >>
  ELSE <<>>

\* input.match(new RegExp(`^${escapeRegex(name)}(?=\\s|$)`, 'i')):
\* <<m[0]>> on a match, <<>> for null
reStartMatch(name, input) ==
  IF /\ Len(name) <= Len(input)
     /\ toLowerCase(SubSeq(input, 1, Len(name))) = toLowerCase(name)
     /\ (Len(input) = Len(name) \/ input[Len(name) + 1] \in WhiteSpace)
  THEN << SubSeq(input, 1, Len(name)) >>
  ELSE <<>>

Undefined == [cmd |-> 0, matchedLen |-> 0]

\* Variant: a later command of equal matched length replaces the best one.
betterMatch_orEqual(len, best) == best = Undefined \/ len >= best.matchedLen

\* the comparison that replaces best: !best || len > best.matchedLen
betterMatch(len, best) == best = Undefined \/ len > best.matchedLen

\* findCommandAtStart: the loop over commands, best so far in hand
RECURSIVE startLoop(_, _, _)
startLoop(i, best, input) ==
  IF i > Len(commands) THEN best
  ELSE LET m == reStartMatch(commands[i].name, input)
       IN IF m # <<>> /\ m[1] # <<>> /\ betterMatch(Len(m[1]), best)
          THEN startLoop(i + 1, [cmd |-> i, matchedLen |-> Len(m[1])], input)
          ELSE startLoop(i + 1, best, input)

findCommandAtStart(input) == startLoop(1, Undefined, input)

helpLine(c) == <<"  ">> \o c.name \o <<" - ">> \o c.description

\* Variant: the database commands are listed before the system commands.
printGlobalHelp_databaseFirst ==
  << <<"Available commands:">> >>
  \o (IF Len(databaseCommands) > 0
      THEN << <<"\nDatabase commands:">> >>
           \o [i \in 1..Len(databaseCommands) |-> helpLine(databaseCommands[i])]
      ELSE <<>>)
  \o (IF Len(systemCommands) > 0
      THEN << <<"\nSystem commands:">> >>
           \o [i \in 1..Len(systemCommands) |-> helpLine(systemCommands[i])]
      ELSE <<>>)
  \o << <<"\nTips:">>,
        <<"  Type \"help <command>\" or \"<command> --help\" to learn more.">> >>

\* printGlobalHelp: the lines it prints
printGlobalHelp ==
  << <<"Available commands:">> >>
  \o (IF Len(systemCommands) > 0
      THEN << <<"\nSystem commands:">> >>
           \o [i \in 1..Len(systemCommands) |-> helpLine(systemCommands[i])]
      ELSE <<>>)
  \o (IF Len(databaseCommands) > 0
      THEN << <<"\nDatabase commands:">> >>
           \o [i \in 1..Len(databaseCommands) |-> helpLine(databaseCommands[i])]
      ELSE <<>>)
  \o << <<"\nTips:">>,
        <<"  Type \"help <command>\" or \"<command> --help\" to learn more.">> >>

\* Variant: a sort that is not stable, an element goes before those of the
\* same score.
RECURSIVE insertByScore_unstable(_, _)
insertByScore_unstable(sorted, e) ==
  IF sorted = <<>> THEN <<e>>
  ELSE IF e.score <= Head(sorted).score THEN <<e>> \o sorted
  ELSE <<Head(sorted)>> \o insertByScore_unstable(Tail(sorted), e)

\* Array.prototype.sort((a, b) => a.score - b.score), which is stable:
\* insertion after every element whose score is not greater
RECURSIVE insertByScore(_, _)
insertByScore(sorted, e) ==
  IF sorted = <<>> THEN <<e>>
  ELSE IF e.score < Head(sorted).score THEN <<e>> \o sorted
  ELSE <<Head(sorted)>> \o insertByScore(Tail(sorted), e)

RECURSIVE sortByScore(_, _)
sortByScore(todo, sorted) ==
  IF todo = <<>> THEN sorted
  ELSE sortByScore(Tail(todo), insertByScore(sorted, Head(todo)))

didYouMean(c) == <<"Did you mean: ">> \o c.name \o <<" ?">>

\* this.commands.find(c => normalizeName(c.name()).startsWith(needle + " "))
RECURSIVE prefixLoop(_, _)
prefixLoop(i, needle) ==
  IF i > Len(commands) THEN 0
  ELSE IF startsWith(normalizeName(commands[i].name), needle \o <<SP>>) THEN i
  ELSE prefixLoop(i + 1, needle)

\* Variant: the prefix is sought whatever the length of the needle.
prefixCandidate_anyLength(needle) == prefixLoop(1, needle)

\* if (needle.length >= 3) { const prefixCandidate = this.commands.find(...) }
prefixCandidate(needle) == IF Len(needle) >= 3 THEN prefixLoop(1, needle) ELSE 0

\* this.commands.map(c => ({c, score: levenshtein(needle, normalizeName(c.name()))}))
RECURSIVE scoresFrom(_, _)
scoresFrom(i, needle) ==
  IF i > Len(commands) THEN <<>>
  ELSE << [c |-> i, score |-> levenshtein(needle, normalizeName(commands[i].name))] >>
       \o scoresFrom(i + 1, needle)

\* suggestClosest: the lines it prints
suggestClosest(input) ==
  LET needle == normalizeName(input)
      scores == sortByScore(scoresFrom(1, needle), <<>>)
  IN IF scores # <<>> /\ scores[1].score <= 3
     THEN << didYouMean(commands[scores[1].c]) >>
     ELSE IF prefixCandidate(needle) # 0
          THEN << didYouMean(commands[prefixCandidate(needle)]) >>
          ELSE << <<"Type \"help\" to see available commands.">> >>

\* Variant: the split without the test for an empty argument string.
splitArgs_noGuard(argStr) == splitWs(argStr)

\* const args = argStr ? argStr.split(/\s+/) : []
splitArgs(argStr) == IF argStr # <<>> THEN splitWs(argStr) ELSE <<>>

\* Variant: only the first argument is tested.
someHelpToken_first(args) == args # <<>> /\ isHelpToken(args[1])

\* args.some(isHelpToken)
someHelpToken(args) == \E i \in 1..Len(args) : isHelpToken(args[i])

\* A call of a command's method: help() or execute(args), and how it ended
\* ("return", "throw", or "exit" when it ended the process).
HelpCall(c) == [op |-> "help", cmd |-> c, args |-> <<>>, ended |-> "return"]
ExecuteCall(c, args) == [op |-> "execute", cmd |-> c, args |-> args, ended |-> "return"]

\* Variant: the suggestion is sought for the whole target.
helpNeedle_target(rest, targetRaw) == targetRaw

\* const needle = rest[0] ?? targetRaw (rest is not empty there)
helpNeedle(rest, targetRaw) == rest[1]

\* Router.command, first token a help token: global help, the help of the
\* command named by the remaining tokens, or the unknown-command report
helpRequest(rest) ==
  IF rest = <<>>
  THEN [out |-> printGlobalHelp, call |-> <<>>]
  ELSE LET targetRaw == trim(joinSp(rest))
           cmd == findCommandByExactName(targetRaw)
       IN IF cmd # 0
          THEN [out |-> <<>>, call |-> <<HelpCall(cmd)>>]
          ELSE [out |-> << <<"Unknown command for help: ">> \o targetRaw >>
                        \o (IF helpNeedle(rest, targetRaw) # <<>>
                            THEN suggestClosest(helpNeedle(rest, targetRaw))
                            ELSE <<>>),
                call |-> <<>>]

\* Variant: no return after cmd.help(), execution follows the help.
dispatch_fallThrough(cmd, args) ==
  IF someHelpToken(args)
  THEN [out |-> <<>>, call |-> <<HelpCall(cmd), ExecuteCall(cmd, args)>>]
  ELSE [out |-> <<>>, call |-> <<ExecuteCall(cmd, args)>>]

\* Router.command once a command is matched: its help when an argument asks
\* for it, else its execute
dispatch(cmd, args) ==
  IF someHelpToken(args)
  THEN [out |-> <<>>, call |-> <<HelpCall(cmd)>>]
  ELSE [out |-> <<>>, call |-> <<ExecuteCall(cmd, args)>>]

\* Router.command up to the calls it makes: the lines it prints itself and
\* the methods of commands it invokes, in order.
command(input) ==
  LET raw == trim(input)
  IN IF raw = <<>> THEN [out |-> <<>>, call |-> <<>>]
     ELSE
     LET tokens == splitWs(raw)
         first  == tokens[1]
         rest   == Tail(tokens)
     IN IF isHelpToken(first)
        THEN helpRequest(rest)
        ELSE LET match == findCommandAtStart(raw)
             IN IF match = Undefined
                THEN [out |-> << <<"Unknown command: ">> \o first >> \o suggestClosest(first),
                      call |-> <<>>]
                ELSE dispatch(match.cmd, splitArgs(trim(slice(raw, match.matchedLen))))

(***************************************************************************)
(* Input lines                                                             *)
(*                                                                         *)
(* A line is typed as a head (empty, blank, a command name in some         *)
(* spelling, a help request) followed by up to MaxArgs argument pieces,    *)
(* each a run of white space and a word; then it is entered.               *)
(***************************************************************************)
MaxArgs == 2

w_exit     == <<"e","x","i","t">>
w_attach   == <<"a","t","t","a","c","h">>
w_database == <<"d","a","t","a","b","a","s","e">>
w_help     == <<"h","e","l","p">>
w_clear    == <<"c","l","e","a","r">>
w_far      == <<"q","q","q","q","q","q","q","q">>

Heads ==
  { <<>>, <<SP, TAB>>,
    <<".">> \o w_exit, <<SP>> \o <<".">> \o w_exit, <<".","E","x","i","T">>,
    w_exit, toUpperCase(w_exit), <<".">> \o w_exit \o <<"x">>,
    <<".">> \o w_clear, w_clear,
    w_help, toUpperCase(w_help), <<"-","-","h","e","l","p">>, <<"-","h">>, <<"?">>,
    w_help \o <<SP, ".">> \o w_exit, w_help \o <<SP>> \o w_exit,
    <<"?", TAB, ".">> \o toUpperCase(w_exit),
    w_help \o <<SP>> \o w_attach \o <<SP>> \o w_database,
    w_help \o <<SP>> \o w_attach \o <<TAB>> \o w_database,
    w_help \o <<SP>> \o toUpperCase(w_attach) \o <<SP, SP>> \o toUpperCase(w_database),
    w_help \o <<SP>> \o w_attach,
    w_help \o <<SP>> \o w_far,
    w_attach \o <<SP>> \o w_database,
    toUpperCase(w_attach) \o <<SP>> \o toUpperCase(w_database),
    <<"A">> \o Tail(w_attach) \o <<SP>> \o <<"D">> \o Tail(w_database),
    w_attach \o <<SP, SP>> \o w_database,
    w_attach \o <<TAB>> \o w_database,
    w_attach \o <<SP>> \o w_database \o <<"x">>,
    w_attach, toUpperCase(w_attach),
    w_far, <<"d","b">>, w_attach \o w_database }

w_db == <<"D",".","d","b">>

\* What may follow the head as its first argument piece ...
ArgPieces ==
  { <<SP>> \o w_db, <<SP, SP, ".", "/">> \o w_db,
    <<SP, "-", "h">>, <<TAB, SP>> \o toUpperCase(w_help), <<SP, "?">>,
    <<SP>> \o <<"-","-","h","e","l","p">>, <<SP>> }

\* ... and as a further one.
MoreArgPieces ==
  { <<TAB, ".", "/">> \o w_db \o <<SP>>, <<SP, SP, "-", "H">> }

(***************************************************************************)
(* Database file header (constants/header.ts, helpers/db/header.ts)        *)
(***************************************************************************)
HEADER_SIZE == 100
MAGIC_LEN == 16
PAGE_SIZE_OFFSET == 16
PAGE_SIZE_LEN == 2
DEFAULT_PAGE_SIZE == 4096
MIN_HEADER_VALID_BYTES == PAGE_SIZE_OFFSET + PAGE_SIZE_LEN
\* MAGIC_STRING = "LiteCoreDB v1", as ASCII codes
MAGIC_STRING == <<76, 105, 116, 101, 67, 111, 114, 101, 68, 66, 32, 118, 49>>

\* Variant: the page size written with writeUInt16BE.
createHeader_bigEndian(pageSize) ==
  [k \in 1..HEADER_SIZE |->
     IF k <= Len(MAGIC_STRING) THEN MAGIC_STRING[k]
     ELSE IF k = PAGE_SIZE_OFFSET + 1 THEN (pageSize % 65536) \div 256
     ELSE IF k = PAGE_SIZE_OFFSET + 2 THEN (pageSize % 65536) % 256
     ELSE 0]

\* createHeader: Buffer.alloc(HEADER_SIZE, 0), the magic copied to offset 0,
\* writeUInt16LE(pageSize & 0xffff, PAGE_SIZE_OFFSET).  Byte k of the buffer
\* is element k + 1.
createHeader(pageSize) ==
  [k \in 1..HEADER_SIZE |->
     IF k <= Len(MAGIC_STRING) THEN MAGIC_STRING[k]
     ELSE IF k = PAGE_SIZE_OFFSET + 1 THEN (pageSize % 65536) % 256
     ELSE IF k = PAGE_SIZE_OFFSET + 2 THEN (pageSize % 65536) \div 256
     ELSE 0]

\* buf.subarray(0, MAGIC_LEN).toString("ascii"): each byte with its highest
\* bit unset
asciiDecode(bytes) == [k \in 1..Len(bytes) |-> bytes[k] % 128]

\* .replace(/\0+$/, "")
RECURSIVE stripTrailingNul(_)
stripTrailingNul(cs) ==
  IF cs = <<>> THEN cs
  ELSE IF cs[Len(cs)] = 0 THEN stripTrailingNul(SubSeq(cs, 1, Len(cs) - 1)) ELSE cs

\* Variant: buf.readUInt8(off), one byte only.
readUInt16LE_oneByte(buf, off) == buf[off + 1]

\* buf.readUInt16LE(off)
readUInt16LE(buf, off) == buf[off + 1] + 256 * buf[off + 2]

isValidHeader(buf) ==
  IF Len(buf) < MIN_HEADER_VALID_BYTES THEN FALSE
  ELSE IF stripTrailingNul(asciiDecode(SubSeq(buf, 1, MAGIC_LEN))) # MAGIC_STRING THEN FALSE
  ELSE readUInt16LE(buf, PAGE_SIZE_OFFSET) > 0

(***************************************************************************)
(* helpers/fs/paths.ts and node:path                                       *)
(***************************************************************************)
CWD == << <<"c","w","d">> >>      \* process.cwd(), as path segments
HOME == << <<"h","o","m","e">> >> \* process.env.HOME, as path segments

\* The pieces of a path between its "/" separators.
RECURSIVE segmentsFrom(_, _, _)
segmentsFrom(s, cur, acc) ==
  IF s = <<>> THEN Append(acc, cur)
  ELSE IF Head(s) = "/" THEN segmentsFrom(Tail(s), <<>>, Append(acc, cur))
  ELSE segmentsFrom(Tail(s), Append(cur, Head(s)), acc)

\* path.resolve's normalisation: "" and "." dropped, ".." pops a segment
RECURSIVE normalizeSegments(_, _)
normalizeSegments(todo, done) ==
  IF todo = <<>> THEN done
  ELSE IF Head(todo) \in {<<>>, <<".">>} THEN normalizeSegments(Tail(todo), done)
  ELSE IF Head(todo) = <<".", ".">>
       THEN normalizeSegments(Tail(todo),
                              IF done = <<>> THEN done ELSE SubSeq(done, 1, Len(done) - 1))
       ELSE normalizeSegments(Tail(todo), Append(done, Head(todo)))

\* path.resolve(p): an absolute path as its segments
pathResolve(p) ==
  IF p # <<>> /\ Head(p) = "/"
  THEN normalizeSegments(segmentsFrom(p, <<>>, <<>>), <<>>)
  ELSE normalizeSegments(segmentsFrom(p, <<>>, <<>>), CWD)

\* resolveUserPath: "~" and "~/..." are taken from the home directory
resolveUserPath(input) ==
  IF input = <<"~">> THEN HOME
  ELSE IF startsWith(input, <<"~", "/">>)
       THEN normalizeSegments(segmentsFrom(slice(input, 2), <<>>, <<>>), HOME)
       ELSE pathResolve(input)

\* path.dirname / path.basename of an absolute path
dirname(abs) == IF abs = <<>> THEN <<>> ELSE SubSeq(abs, 1, Len(abs) - 1)
basename(abs) == IF abs = <<>> THEN <<>> ELSE abs[Len(abs)]

\* The directories: those the working and the home directory lie in, and
\* those a file lies in.
isDirectory(abs, fs) ==
  \/ Len(abs) <= Len(CWD) /\ abs = SubSeq(CWD, 1, Len(abs))
  \/ Len(abs) <= Len(HOME) /\ abs = SubSeq(HOME, 1, Len(abs))
  \/ \E f \in DOMAIN fs : Len(abs) < Len(f) /\ abs = SubSeq(f, 1, Len(abs))

\* ensureParentDir: mkdirSync(dir, {recursive: true}) throws when a regular
\* file stands where a directory is needed
ensureParentDirFails(abs, fs) ==
  \E n \in 1..Len(dirname(abs)) : SubSeq(abs, 1, n) \in DOMAIN fs

\* ensureParentDir: the directories that are there once mkdirSync returned
ensureParentDir(abs) == { SubSeq(abs, 1, n) : n \in 0..Len(dirname(abs)) }

(***************************************************************************)
(* helpers/db/database_file.ts                                             *)
(***************************************************************************)
\* fs.readSync(fd, buf, 0, HEADER_SIZE, 0) into Buffer.alloc(HEADER_SIZE)
readInto(content) ==
  [k \in 1..HEADER_SIZE |-> IF k <= Len(content) THEN content[k] ELSE 0]

\* Variant: the count of bytes asked for, not of bytes read.
bytesRead_asked(content) == HEADER_SIZE

bytesRead(content) == IF Len(content) < HEADER_SIZE THEN Len(content) ELSE HEADER_SIZE

\* Variant: the file is created with the magic field only.
createFile_magicOnly(absPath, fs) ==
  (absPath :> SubSeq(createHeader(DEFAULT_PAGE_SIZE), 1, MAGIC_LEN)) @@ fs

\* Variant: the file is created with nothing in it.
createFile_empty(absPath, fs) == (absPath :> <<>>) @@ fs

\* fs.writeFileSync(absPath, createHeader(DEFAULT_PAGE_SIZE), {flag: "w"})
createFile(absPath, fs) == (absPath :> createHeader(DEFAULT_PAGE_SIZE)) @@ fs

\* Variant: the header is validated whatever the count of bytes read.
validateFile_noSizeTest(content) ==
  IF ~isValidHeader(readInto(content))
  THEN <<"Invalid database header: magic string mismatch or bad page size">>
  ELSE <<>>

\* The header of an existing file is read and validated: the message of the
\* Error thrown, <<>> when none is.
validateFile(content) ==
  IF bytesRead(content) < MIN_HEADER_VALID_BYTES
  THEN <<"Invalid database header: file too small">>
  ELSE IF ~isValidHeader(readInto(content))
       THEN <<"Invalid database header: magic string mismatch or bad page size">>
       ELSE <<>>

\* Variant: closeSync after the try block, not in a finally.
fdCalls_noFinally(error) ==
  IF error # <<>> THEN <<"openSync", "readSync">>
  ELSE <<"openSync", "readSync", "closeSync">>

\* The calls made on the descriptor of an existing file: openSync, then in
\* the try block readSync and the tests that may throw error, then closeSync
\* in the finally block, whatever left the try block.
fdCalls(error) == <<"openSync", "readSync", "closeSync">>

\* The descriptors opened and closed so far, after the calls fds.
countFds(count, fds) ==
  [ opened |-> count.opened + Cardinality({k \in DOMAIN fds : fds[k] = "openSync"}),
    closed |-> count.closed + Cardinality({k \in DOMAIN fds : fds[k] = "closeSync"}) ]

\* ensureDatabaseFile(absPath) on the files fs and the directories made
\* beside those the files lie in: the files afterwards, the message of the
\* Error it throws (<<>>: none) and the calls it made on the descriptor it
\* opened.  At a directory existsSync is true, the directory can be opened,
\* and reading from it fails; writeFileSync fails where the directory to
\* write in is missing.
ensureDatabaseFile(absPath, fs, made) ==
  IF absPath \in DOMAIN fs
  THEN [files |-> fs, error |-> validateFile(fs[absPath]),
        fds |-> fdCalls(validateFile(fs[absPath]))]
  ELSE IF isDirectory(absPath, fs) \/ absPath \in made
       THEN [files |-> fs, error |-> <<"EISDIR: illegal operation on a directory, read">>,
             fds |-> fdCalls(<<"EISDIR: illegal operation on a directory, read">>)]
       ELSE IF isDirectory(dirname(absPath), fs) \/ dirname(absPath) \in made
            THEN [files |-> createFile(absPath, fs), error |-> <<>>, fds |-> <<>>]
            ELSE IF ensureParentDirFails(absPath, fs)
                 THEN [files |-> fs, error |-> <<"ENOTDIR: not a directory, open">>,
                       fds |-> <<>>]
                 ELSE [files |-> fs, error |-> <<"ENOENT: no such file or directory, open">>,
                       fds |-> <<>>]

(***************************************************************************)
(* Commands' execute()                                                     *)
(***************************************************************************)
\* base.replace(/\.[^.]+$/, ""): the last "." and what follows it are cut
\* when at least one character follows and none of them is a "."
RECURSIVE lastDot(_, _)
lastDot(s, i) == IF i = 0 THEN 0 ELSE IF s[i] = "." THEN i ELSE lastDot(s, i - 1)

stripExtension(base) ==
  LET d == lastDot(base, Len(base))
  IN IF d = 0 \/ d = Len(base) THEN base ELSE SubSeq(base, 1, d - 1)

\* An absolute path as text: "/" before each of its segments.
RECURSIVE pathText(_)
pathText(abs) ==
  IF abs = <<>> THEN <<>> ELSE <<"/">> \o Head(abs) \o pathText(Tail(abs))

\* Variant: the resolved path is printed.
attachedLine_resolved(url, abs) == <<"Attached database: ">> \o pathText(abs)

\* console.log(`Attached database: ${url}`)
attachedLine(url, abs) == <<"Attached database: ">> \o url

\* Variant: no catch, the Error leaves execute.
attachFailure_thrown(msg, sess, fs) ==
  [out |-> <<>>, err |-> <<>>, session |-> sess, files |-> fs, thrown |-> msg,
   fds |-> <<>>]

\* Variant: the failure clears session.dbPath.
attachFailure_detached(msg, sess, fs) ==
  [out |-> <<>>, err |-> << <<"Failed to attach database: ">> \o msg >>,
   session |-> [sess EXCEPT !.dbPath = <<>>], files |-> fs, thrown |-> <<>>,
   fds |-> <<>>]

\* catch (err) { console.error(`Failed to attach database: ${msg}`) }
attachFailure(msg, sess, fs) ==
  [out |-> <<>>, err |-> << <<"Failed to attach database: ">> \o msg >>,
   session |-> sess, files |-> fs, thrown |-> <<>>, fds |-> <<>>]

\* Variant: "?" is taken as a path.
usageAsked_flagsOnly(url) ==
  url = <<>> \/ startsWith(url, <<"-", "-">>) \/ url = <<"-", "h">>

\* !url || url.startsWith("--") || url === "-h" || url === "?"
usageAsked(url) ==
  url = <<>> \/ startsWith(url, <<"-", "-">>) \/ url = <<"-", "h">> \/ url = <<"?">>

\* AttachCommand.execute(args): what it prints, the session and the files
\* afterwards, and the message of the Error that leaves it (<<>>: none).
attachExecute(args, sess, fs) ==
  LET url == IF args # <<>> /\ args[1] # <<>> THEN args[1] ELSE <<>>
  IN IF usageAsked(url)
     THEN [out |-> << <<"Usage: ATTACH DATABASE <path|url>">>,
                      <<"Example: ATTACH DATABASE ./db.db">> >>,
           err |-> <<>>, session |-> sess, files |-> fs, thrown |-> <<>>,
           fds |-> <<>>]
     ELSE LET abs == resolveUserPath(url)
          IN IF ensureParentDirFails(abs, fs)
             THEN attachFailure(<<"ENOTDIR: not a directory, mkdir">>, sess, fs)
             ELSE LET e == ensureDatabaseFile(abs, fs, ensureParentDir(abs))
                  IN IF e.error # <<>>
                     THEN [attachFailure(e.error, sess, e.files) EXCEPT !.fds = e.fds]
                     ELSE [out |-> << attachedLine(url, abs) >>,
                           err |-> <<>>,
                           session |-> [sess EXCEPT !.dbPath = <<abs>>,
                                                    !.dbName = <<stripExtension(basename(abs))>>],
                           files |-> e.files, thrown |-> <<>>, fds |-> e.fds]

(***************************************************************************)
(* helpers/cli/monitoring.ts.  A line of the log is a sequence of pieces   *)
(* of text; the log is [exists, lines].                                    *)
(***************************************************************************)
\* getMonitoringFilePath(): path.join(home, MONITOR_BASENAME)
getMonitoringFilePath == <<"/home/.litecore_monitoring.log">>

\* ensureMonitoringFile(): fs.appendFileSync(file, '')
ensureMonitoringFile(log) == [log EXCEPT !.exists = TRUE]

\* enableMonitoring()
enableMonitoring(sess, log) ==
  [ session |-> [sess EXCEPT !.monitoringEnabled = TRUE,
                             !.monitorLogPath =
                                IF @ # <<>> THEN @ ELSE getMonitoringFilePath],
    log |-> ensureMonitoringFile(log),
    file |-> IF sess.monitorLogPath # <<>> THEN sess.monitorLogPath
             ELSE getMonitoringFilePath ]

\* disableMonitoring()
disableMonitoring(sess) == [sess EXCEPT !.monitoringEnabled = FALSE]

\* isMonitoringEnabled()
isMonitoringEnabled(sess) == sess.monitoringEnabled

CSV_HEADER ==
  <<"ts,input,ms,deltaHeapUsedBytes,deltaRssBytes,deltaExternalBytes,deltaArrayBuffersBytes,userMicros,systemMicros">>

\* value.replace(/"/g, '""')
RECURSIVE doubleQuotes(_)
doubleQuotes(value) ==
  IF value = <<>> THEN <<>>
  ELSE (IF Head(value) = "\"" THEN <<"\"", "\"">> ELSE <<Head(value)>>)
         \o doubleQuotes(Tail(value))

\* csvEscape(value): quoted when the value holds a quote, a comma or a line
\* break, or starts or ends with white space
csvEscape(value) ==
  IF value = <<>> THEN <<>>
  ELSE LET needsQuotes ==
             \/ \E k \in DOMAIN value : value[k] \in {"\"", ",", "\n", "\r"}
             \/ Head(value) \in WhiteSpace
             \/ value[Len(value)] \in WhiteSpace
       IN IF needsQuotes THEN <<"\"">> \o doubleQuotes(value) \o <<"\"">>
          ELSE doubleQuotes(value)

\* toCsv(entry): the nine fields joined by commas; entry.heap is
\* entry.memory?.deltaHeapUsedBytes, the other deltas are not given.
toCsv(entry) ==
  csvEscape(entry.ts) \o <<",">> \o csvEscape(entry.input) \o <<",">>
    \o <<ToString(entry.ms)>> \o <<",">>
    \o (IF entry.heap = <<>> THEN <<>> ELSE <<ToString(entry.heap[1])>>)
    \o <<",", ",", ",", ",", ",">>

\* logMetrics(entry): the lines handed to fs.appendFile; the header row goes
\* first when the log is missing or has size 0 at the time of the call.
logMetrics(entry, log) ==
  LET needsHeader == ~log.exists \/ log.lines = <<>>
  IN (IF needsHeader THEN <<CSV_HEADER>> ELSE <<>>) \o <<toCsv(entry)>>

\* printMonitoringLogPathIfAny
printMonitoringLogPathIfAny(sess) ==
  IF sess.monitoringEnabled
  THEN << <<"Monitoring log: ">> \o sess.monitorLogPath >>
  ELSE <<>>

\* MonitoringCommand.execute(args): what it prints, the session and the log
\* afterwards
monitoringExecute(args, sess, log) ==
  LET token == IF args # <<>> THEN toLowerCase(args[1]) ELSE <<>>
  IN IF token \in { <<"t", "r", "u", "e">>, <<"o", "n">>, <<"e", "n", "a", "b", "l", "e">> }
     THEN LET e == enableMonitoring(sess, log)
          IN [ out |-> << <<"Monitoring enabled. Logging to: ">> \o e.file >>,
               session |-> e.session, log |-> e.log ]
     ELSE IF token \in { <<"f", "a", "l", "s", "e">>, <<"o", "f", "f">>,
                         <<"d", "i", "s", "a", "b", "l", "e">> }
          THEN [ out |-> << <<"Monitoring disabled. Log file: ">> \o getMonitoringFilePath >>,
                 session |-> disableMonitoring(sess), log |-> log ]
          ELSE [ out |-> << <<"Monitoring: ", IF isMonitoringEnabled(sess) THEN "ON" ELSE "OFF">>,
                            <<"Log file: ">> \o getMonitoringFilePath >>,
                 session |-> sess, log |-> log ]

\* How a call of execute can end: it returns, it throws, or it ends the
\* process.  ExitCommand ends in process.exit(0); AttachCommand and
\* ClearCommand let no error out; another Command may fail.
Fates(c) ==
  IF c.impl = "ExitCommand" THEN {"exit"}
  ELSE IF c.impl = "Command" THEN {"return", "throw"}
  ELSE {"return"}

\* c.execute(args): what it prints and the state it leaves
execute(c, args, sess, fs) ==
  IF c.impl = "AttachCommand" THEN attachExecute(args, sess, fs)
  ELSE IF c.impl = "ExitCommand"
       THEN [out |-> printMonitoringLogPathIfAny(sess), err |-> <<>>,
             session |-> sess, files |-> fs]
       ELSE [out |-> <<>>, err |-> <<>>, session |-> sess, files |-> fs]

\* console.error('Command failed:', e)
commandFailed(e) == <<"Command failed:", " ", e>>

\* Variant: cmd.execute(args) without the try/catch around it.
tryExecute_noCatch(c, args, sess, fs, fate) ==
  [ out |-> execute(c, args, sess, fs).out,
    err |-> execute(c, args, sess, fs).err,
    session |-> execute(c, args, sess, fs).session,
    files |-> execute(c, args, sess, fs).files,
    uncaught |-> fate = "throw" ]

\* try { cmd.execute(args) } catch (e) { console.error('Command failed:', e) }
\* uncaught: whether the error leaves Router.command
tryExecute(c, args, sess, fs, fate) ==
  LET r == execute(c, args, sess, fs)
  IN [ out |-> r.out,
       err |-> IF fate = "throw" THEN Append(r.err, commandFailed("Error")) ELSE r.err,
       session |-> r.session, files |-> r.files,
       uncaught |-> FALSE ]

\* The calls Router.command makes, one after the other, on the state st =
\* [out, err, session, files, running, calls]; fate is how an execute ends.
RECURSIVE invoke(_, _, _)
invoke(todo, st, fate) ==
  IF todo = <<>> \/ ~st.running THEN st
  ELSE LET c == commands[Head(todo).cmd]
       IN IF Head(todo).op = "help"
          THEN invoke(Tail(todo),
                      [st EXCEPT !.out = @ \o c.helpText,
                                 !.calls = Append(@, Head(todo))],
                      fate)
          ELSE LET x == tryExecute(c, Head(todo).args, st.session, st.files, fate)
               IN invoke(Tail(todo),
                         [ out |-> st.out \o x.out, err |-> st.err \o x.err,
                           session |-> x.session, files |-> x.files,
                           running |-> fate # "exit" /\ ~x.uncaught,
                           calls |-> Append(st.calls, [Head(todo) EXCEPT !.ended = fate]) ],
                         fate)

\* The fates the execute calls among todo can have.
FatesOf(todo) ==
  IF \E k \in 1..Len(todo) : todo[k].op = "execute"
  THEN UNION { Fates(commands[todo[k].cmd]) : k \in {n \in 1..Len(todo) : todo[n].op = "execute"} }
  ELSE {"return"}

(***************************************************************************)
(* Actions                                                                 *)
(***************************************************************************)
\* session = {}, then the defaults monitoring.ts sets when it is loaded
InitialSession ==
  [ dbPath |-> <<>>, dbName |-> <<>>,
    monitoringEnabled |-> FALSE,
    monitorLogPath |-> <<"/home/.litecore_monitoring.log">> ]

\* computePrompt(): session.dbName ? `\nLiteCore - ${session.dbName}> `
\* : '\nLiteCore> '.  undefined and the empty string are both falsy.
computePrompt(sess) ==
  IF sess.dbName # <<>> /\ sess.dbName[1] # <<>>
  THEN <<"\nLiteCore - ">> \o sess.dbName[1] \o <<"> ">>
  ELSE <<"\nLiteCore> ">>

\* The REPL at its first prompt, the Router constructed over registry r.
RouterAtStart(r) ==
  /\ systemCommands = r.sys /\ databaseCommands = r.db
  /\ line = <<>>
  /\ nargs = 0
  /\ status = "idle"
  /\ stdout = <<>>
  /\ stderr = <<>>
  /\ calls = <<>>
  /\ running = TRUE
  /\ session = InitialSession
  /\ files = <<>>

\* No header is being made or validated.
CodecUnused ==
  /\ requested = 0
  /\ header = <<>>
  /\ valid = "none"
  /\ codecStep = "start"
  /\ alters = 0

\* No function was called on the files on its own.
NoFileCall ==
  /\ lastOp = [name |-> "none", arg |-> <<>>]
  /\ thrown = <<>>
  /\ before = [session |-> InitialSession, files |-> <<>>,
               op |-> [name |-> "none", arg |-> <<>>], thrown |-> <<>>]
  /\ ops = 0
  /\ openFds = [opened |-> 0, closed |-> 0]

\* No metrics were logged: the monitoring log is not there.
MonitorUnused ==
  /\ logFile = [exists |-> FALSE, lines |-> <<>>]
  /\ pending = <<>>
  /\ logged = <<>>

\* levenshtein was not called.
LevUnused ==
  lev = [a |-> <<>>, b |-> <<>>, c |-> <<>>, called |-> FALSE,
         ab |-> 0, ba |-> 0, aa |-> 0, bc |-> 0, ac |-> 0]

Init ==
  /\ \E r \in Registries : RouterAtStart(r)
  /\ CodecUnused
  /\ NoFileCall
  /\ MonitorUnused
  /\ LevUnused

\* The user starts a line at the prompt.
TypeHead(h) ==
  /\ running
  /\ status = "idle"
  /\ line' = h
  /\ status' = "typing"
  /\ UNCHANGED <<systemCommands, databaseCommands, nargs, stdout, stderr, calls,
                 running, session, files>>
  /\ UNCHANGED <<codecVars, fileVars, monitorVars, levVars>>

\* The user types one more argument piece.
TypeArg(p) ==
  /\ running
  /\ status = "typing"
  /\ nargs < MaxArgs
  /\ p \in (IF nargs = 0 THEN ArgPieces ELSE MoreArgPieces)
  /\ line' = line \o p
  /\ nargs' = nargs + 1
  /\ UNCHANGED <<systemCommands, databaseCommands, status, stdout, stderr, calls,
                 running, session, files>>
  /\ UNCHANGED <<codecVars, fileVars, monitorVars, levVars>>

\* Router.command(line), the help() or execute(args) it calls included.
\* status becomes "done" when it returns, "ended" when the process ends in it.
RouterCommand(fate) ==
  /\ running
  /\ status = "typing"
  /\ \E r \in {command(line)} :
        /\ fate \in FatesOf(r.call)
        /\ \E st \in {invoke(r.call,
                             [ out |-> r.out, err |-> <<>>, session |-> session,
                               files |-> files, running |-> TRUE, calls |-> <<>> ],
                             fate)} :
              /\ stdout' = st.out
              /\ stderr' = st.err
              /\ session' = st.session
              /\ files' = st.files
              /\ running' = st.running
              /\ calls' = st.calls
              /\ status' = IF st.running THEN "done" ELSE "ended"
  /\ UNCHANGED <<systemCommands, databaseCommands, line, nargs>>
  /\ UNCHANGED <<codecVars, fileVars, monitorVars, levVars>>

\* The REPL shows the next prompt (app.ts: rl.prompt()); what the last line
\* printed scrolls away.
Prompt ==
  /\ running
  /\ status = "done"
  /\ status' = "idle"
  /\ line' = <<>>
  /\ nargs' = 0
  /\ stdout' = <<>>
  /\ stderr' = <<>>
  /\ calls' = <<>>
  /\ UNCHANGED <<systemCommands, databaseCommands, running, session, files>>
  /\ UNCHANGED <<codecVars, fileVars, monitorVars, levVars>>

Next ==
  \/ \E h \in Heads : TypeHead(h)
  \/ \E p \in ArgPieces \cup MoreArgPieces : TypeArg(p)
  \/ \E fate \in {"return", "throw", "exit"} : RouterCommand(fate)
  \/ Prompt

Spec == Init /\ [][Next]_vars

(***************************************************************************)
(* The header codec on its own: createHeader(pageSize), then isValidHeader *)
(* on the buffer, which a writer of the file may have altered in between.  *)
(***************************************************************************)
MaxAlter == 2

\* Page sizes: zero, the ends of the 16-bit range, values with one and with
\* two non-zero bytes, and values that do not fit in 16 bits.
PageSizes == {0, 1, 2, 255, 256, 257, DEFAULT_PAGE_SIZE, 32768, 65535, 65536, 65537, 131071}

\* Bytes of interest: the first and the last byte of the magic string, the
\* first and the last byte of its padding, the two bytes of the page size,
\* the first and the last byte of the rest.  Position k is offset k - 1.
AlteredPositions ==
  { 1, Len(MAGIC_STRING), Len(MAGIC_STRING) + 1, MAGIC_LEN,
    PAGE_SIZE_OFFSET + 1, PAGE_SIZE_OFFSET + 2, MIN_HEADER_VALID_BYTES + 1, HEADER_SIZE }

\* Lengths a buffer is cut to.
CutLengths ==
  {0, MIN_HEADER_VALID_BYTES - 1, MIN_HEADER_VALID_BYTES, MIN_HEADER_VALID_BYTES + 1}

ShippedRegistry == [sys |-> <<ExitCommand>>, db |-> <<AttachCommand>>]

HeaderInit ==
  /\ RouterAtStart(ShippedRegistry)
  /\ requested \in PageSizes
  /\ header = <<>>
  /\ valid = "none"
  /\ codecStep = "start"
  /\ alters = 0
  /\ NoFileCall
  /\ MonitorUnused
  /\ LevUnused

\* createHeader(pageSize), for the page size requested
CreateHeader ==
  /\ codecStep = "start"
  /\ header' = createHeader(requested)
  /\ codecStep' = "created"
  /\ UNCHANGED <<requested, valid, alters>>
  /\ UNCHANGED <<routerVars, fileVars, monitorVars, levVars>>

\* One byte of the buffer is overwritten: with 0, with 1, or with itself and
\* its highest bit inverted.
SetByte(k, how) ==
  /\ codecStep = "created"
  /\ alters < MaxAlter
  /\ k <= Len(header)
  /\ header' = [header EXCEPT ![k] = IF how = "zero" THEN 0
                               ELSE IF how = "one" THEN 1
                               ELSE (header[k] + 128) % 256]
  /\ alters' = alters + 1
  /\ UNCHANGED <<requested, valid, codecStep>>
  /\ UNCHANGED <<routerVars, fileVars, monitorVars, levVars>>

\* The buffer is cut to its first n bytes: buf.subarray(0, n).
Cut(n) ==
  /\ codecStep = "created"
  /\ alters < MaxAlter
  /\ n < Len(header)
  /\ header' = SubSeq(header, 1, n)
  /\ alters' = alters + 1
  /\ UNCHANGED <<requested, valid, codecStep>>
  /\ UNCHANGED <<routerVars, fileVars, monitorVars, levVars>>

\* valid = isValidHeader(buf), for the buffer as it is
IsValidHeader ==
  /\ codecStep = "created"
  /\ valid' = isValidHeader(header)
  /\ codecStep' = "validated"
  /\ UNCHANGED <<requested, header, alters>>
  /\ UNCHANGED <<routerVars, fileVars, monitorVars, levVars>>

HeaderNext ==
  \/ CreateHeader
  \/ \E k \in AlteredPositions, how \in {"zero", "one", "high bit"} : SetByte(k, how)
  \/ \E n \in CutLengths : Cut(n)
  \/ IsValidHeader

HeaderSpec == HeaderInit /\ [][HeaderNext]_vars

(***************************************************************************)
(* The database file helpers and AttachCommand.execute on their own, over  *)
(* disks on which a file may stand at ./D.db before the first call.        *)
(***************************************************************************)
MaxOps == 2

\* ./D.db, resolved
DbPath == CWD \o <<w_db>>

ValidHeader == createHeader(DEFAULT_PAGE_SIZE)

\* What the file at ./D.db may hold: nothing, "NOTADB", a valid header cut
\* before and at the end of its page size, a whole valid header, one with
\* bytes after it, one with a wrong magic string, one with a byte of the
\* magic string above 127, one with page size zero.
Contents ==
  { <<>>,
    <<78, 79, 84, 65, 68, 66>>,
    SubSeq(ValidHeader, 1, MIN_HEADER_VALID_BYTES - 1),
    SubSeq(ValidHeader, 1, MIN_HEADER_VALID_BYTES),
    ValidHeader,
    ValidHeader \o <<7, 7>>,
    [ValidHeader EXCEPT ![1] = 108],
    [ValidHeader EXCEPT ![1] = 204],
    createHeader(0) }

InitialFiles == { <<>> } \cup { (DbPath :> c) : c \in Contents }

\* The argument lists AttachCommand.execute is called with.
AttachArgs ==
  { <<>>,
    << w_db >>,
    << <<".", "/">> \o w_db >>,
    << <<".", ".", "/", "c", "w", "d", "/">> \o w_db, <<"x">> >>,
    << <<"~", "/">> \o w_db >>,
    << <<"~">> >>,
    << <<"s", "u", "b", "/", "a", ".", "b", ".", "c">> >>,
    << w_db \o <<"/", "x">> >>,
    << <<".", "d", "b">> >>,
    << <<"/", "t", "m", "p", "/", "n", "o", "e", "x", "t">> >>,
    << <<"-", "-", "x">> >>,
    << <<"-", "h">> >>,
    << <<"?">> >> }

\* The absolute paths ensureDatabaseFile is called with.
EnsurePaths ==
  { DbPath, HOME \o <<w_db>>, CWD, CWD \o <<w_db, <<"x">> >>, << <<"n", "e", "w">>, w_db >> }

FileInit ==
  /\ systemCommands = ShippedRegistry.sys /\ databaseCommands = ShippedRegistry.db
  /\ line = <<>>
  /\ nargs = 0
  /\ status = "idle"
  /\ stdout = <<>>
  /\ stderr = <<>>
  /\ calls = <<>>
  /\ running = TRUE
  /\ session = InitialSession
  /\ files \in InitialFiles
  /\ CodecUnused
  /\ lastOp = [name |-> "none", arg |-> <<>>]
  /\ thrown = <<>>
  /\ before = [session |-> InitialSession, files |-> files,
               op |-> [name |-> "none", arg |-> <<>>], thrown |-> <<>>]
  /\ ops = 0
  /\ openFds = [opened |-> 0, closed |-> 0]
  /\ MonitorUnused
  /\ LevUnused

\* ensureDatabaseFile(absPath)
EnsureDatabaseFile(absPath) ==
  /\ ops < MaxOps
  /\ \E r \in {ensureDatabaseFile(absPath, files, {})} :
        /\ files' = r.files
        /\ thrown' = r.error
        /\ openFds' = countFds(openFds, r.fds)
  /\ lastOp' = [name |-> "ensureDatabaseFile", arg |-> absPath]
  /\ before' = [session |-> session, files |-> files, op |-> lastOp, thrown |-> thrown]
  /\ ops' = ops + 1
  /\ stdout' = <<>>
  /\ stderr' = <<>>
  /\ UNCHANGED <<systemCommands, databaseCommands, line, nargs, status, calls,
                 running, session>>
  /\ UNCHANGED <<codecVars, monitorVars, levVars>>

\* new AttachCommand().execute(args)
AttachExecute(args) ==
  /\ ops < MaxOps
  /\ \E r \in {attachExecute(args, session, files)} :
        /\ stdout' = r.out
        /\ stderr' = r.err
        /\ session' = r.session
        /\ files' = r.files
        /\ thrown' = r.thrown
        /\ openFds' = countFds(openFds, r.fds)
  /\ lastOp' = [name |-> "execute", arg |-> args]
  /\ before' = [session |-> session, files |-> files, op |-> lastOp, thrown |-> thrown]
  /\ ops' = ops + 1
  /\ UNCHANGED <<systemCommands, databaseCommands, line, nargs, status, calls, running>>
  /\ UNCHANGED <<codecVars, monitorVars, levVars>>

FileNext ==
  \/ \E absPath \in EnsurePaths : EnsureDatabaseFile(absPath)
  \/ \E args \in AttachArgs : AttachExecute(args)

FileSpec == FileInit /\ [][FileNext]_vars

(***************************************************************************)
(* Monitoring: MonitoringCommand.execute and ExitCommand.execute, and      *)
(* logMetrics with the fs.appendFile calls it starts, which complete       *)
(* later and in any order.                                                 *)
(***************************************************************************)
MaxCommands == 2

MaxLogged == 3

MonitoringArgs ==
  { <<>>,
    << <<"s", "t", "a", "t", "u", "s">> >>,
    << <<"t", "r", "u", "e">> >>,
    << <<"O", "N">> >>,
    << <<"f", "a", "l", "s", "e">> >>,
    << <<"O", "f", "f">> >>,
    << <<"d", "i", "s", "a", "b", "l", "e">>, <<"x">> >> }

\* The entries logMetrics is called with
Entries ==
  { [ts |-> <<"t", "1">>, input |-> <<".", "e", "x", "i", "t">>, ms |-> 1, heap |-> <<>>],
    [ts |-> <<"t", "2">>, input |-> <<"a", ",", "\"", "b", "\"", " ">>, ms |-> 12,
     heap |-> <<4096>>] }

MonitorInit ==
  /\ RouterAtStart(ShippedRegistry)
  /\ CodecUnused
  /\ NoFileCall
  /\ LevUnused
  /\ logFile \in { [exists |-> FALSE, lines |-> <<>>], [exists |-> TRUE, lines |-> <<>>] }
  /\ pending = <<>>
  /\ logged = <<>>

\* new MonitoringCommand().execute(args)
MonitoringExecute(args) ==
  /\ running
  /\ ops < MaxCommands
  /\ \E r \in {monitoringExecute(args, session, logFile)} :
        /\ stdout' = r.out
        /\ session' = r.session
        /\ logFile' = r.log
  /\ lastOp' = [name |-> ".monitoring", arg |-> args]
  /\ before' = [before EXCEPT !.session = session, !.op = lastOp]
  /\ ops' = ops + 1
  /\ UNCHANGED <<systemCommands, databaseCommands, line, nargs, status, stderr,
                 calls, running, files, thrown, openFds, pending, logged>>
  /\ UNCHANGED <<codecVars, levVars>>

\* new ExitCommand().execute(): process.exit(0) in the finally block
ExitExecute ==
  /\ running
  /\ stdout' = execute(ExitCommand, <<>>, session, files).out
  /\ running' = FALSE
  /\ lastOp' = [name |-> ".exit", arg |-> <<>>]
  /\ before' = [before EXCEPT !.session = session, !.op = lastOp]
  /\ UNCHANGED <<systemCommands, databaseCommands, line, nargs, status, stderr,
                 calls, session, files, thrown, ops, openFds>>
  /\ UNCHANGED <<codecVars, monitorVars, levVars>>

\* logMetrics(entry): existsSync and statSync now, fs.appendFile started
LogMetrics(entry) ==
  /\ running
  /\ Len(logged) < MaxLogged
  /\ pending' = Append(pending, logMetrics(entry, logFile))
  /\ logged' = Append(logged, toCsv(entry))
  /\ UNCHANGED <<logFile>>
  /\ UNCHANGED <<routerVars, codecVars, fileVars, levVars>>

\* One of the fs.appendFile calls completes: its payload is at the end of
\* the log.
AppendFile(k) ==
  /\ running
  /\ k \in DOMAIN pending
  /\ logFile' = [exists |-> TRUE, lines |-> logFile.lines \o pending[k]]
  /\ pending' = SubSeq(pending, 1, k - 1) \o SubSeq(pending, k + 1, Len(pending))
  /\ UNCHANGED <<logged>>
  /\ UNCHANGED <<routerVars, codecVars, fileVars, levVars>>

MonitorNext ==
  \/ \E args \in MonitoringArgs : MonitoringExecute(args)
  \/ ExitExecute
  \/ \E entry \in Entries : LogMetrics(entry)
  \/ \E k \in 1..MaxLogged : AppendFile(k)

MonitorSpec == MonitorInit /\ [][MonitorNext]_vars

(***************************************************************************)
(* levenshtein on its own, applied to the strings of at most MaxLevLen     *)
(* characters over two letters.                                            *)
(***************************************************************************)
MaxLevLen == 3

LevStrings == UNION { [1..n -> {"a", "b"}] : n \in 0..MaxLevLen }

LevInit ==
  /\ RouterAtStart(ShippedRegistry)
  /\ CodecUnused
  /\ NoFileCall
  /\ MonitorUnused
  /\ \E a \in LevStrings, b \in LevStrings, c \in LevStrings :
        lev = [a |-> a, b |-> b, c |-> c, called |-> FALSE,
               ab |-> 0, ba |-> 0, aa |-> 0, bc |-> 0, ac |-> 0]

\* levenshtein is called on the pairs of the three strings.
Levenshtein ==
  /\ ~lev.called
  /\ lev' = [lev EXCEPT !.called = TRUE,
                        !.ab = levenshtein(lev.a, lev.b),
                        !.ba = levenshtein(lev.b, lev.a),
                        !.aa = levenshtein(lev.a, lev.a),
                        !.bc = levenshtein(lev.b, lev.c),
                        !.ac = levenshtein(lev.a, lev.c)]
  /\ UNCHANGED <<routerVars, codecVars, fileVars, monitorVars>>

LevNext == Levenshtein

LevSpec == LevInit /\ [][LevNext]_vars


(***************************************************************************)
(* Properties of the router                                                *)
(***************************************************************************)
\* Router.command has processed the typed line (it returned, or the process
\* ended inside the command it executed).
Routed == status \in {"done", "ended"}

\* The typed line without its leading and trailing whitespace: from its first
\* to its last character that is not whitespace.
Trimmed ==
  IF \A k \in 1..Len(line) : line[k] \in WhiteSpace THEN <<>>
  ELSE SubSeq(line,
              CHOOSE a \in 1..Len(line) :
                line[a] \notin WhiteSpace /\ \A k \in 1..(a - 1) : line[k] \in WhiteSpace,
              CHOOSE b \in 1..Len(line) :
                line[b] \notin WhiteSpace /\ \A k \in (b + 1)..Len(line) : line[k] \in WhiteSpace)

\* The first whitespace-delimited token of the text t.
FirstTokenOf(t) ==
  SubSeq(t, 1, CHOOSE b \in 0..Len(t) :
                 /\ b = Len(t) \/ t[b + 1] \in WhiteSpace
                 /\ \A k \in 1..b : t[k] \notin WhiteSpace)

\* The first whitespace-delimited token of the trimmed line.
FirstToken == FirstTokenOf(Trimmed)

EqualsIgnoringCase(u, v) ==
  /\ Len(u) = Len(v)
  /\ \A k \in 1..Len(u) : LowerChar(u[k]) = LowerChar(v[k])

\* name stands at the start of raw and is followed by whitespace or the end
MatchesAtStart(name, raw) ==
  /\ name # <<>>
  /\ Len(name) <= Len(raw)
  /\ EqualsIgnoringCase(SubSeq(raw, 1, Len(name)), name)
  /\ Len(raw) = Len(name) \/ raw[Len(name) + 1] \in WhiteSpace

Matching == {i \in 1..Len(commands) : MatchesAtStart(commands[i].name, Trimmed)}

\* Among the matching commands, the one with the longest name, the first
\* registered among those of that length.
Winner ==
  LET m == Matching
  IN CHOOSE i \in m :
       \A k \in m :
         \/ Len(commands[i].name) > Len(commands[k].name)
         \/ Len(commands[i].name) = Len(commands[k].name) /\ i <= k

FirstIsHelp == toLowerCase(FirstToken) \in HelpTokens

\* A line that is neither blank nor a help request.
CommandLine == Routed /\ Trimmed # <<>> /\ ~FirstIsHelp

\* C1: a command matches a line when its name stands at the start of the
\* trimmed line, letters compared without case, followed by whitespace or the
\* end of the line; the command called is the matching one with the longest
\* name, the first registered among equals; when none matches no command is
\* called and the first line printed is "Unknown command: <first token>".
C1_Resolution ==
  CommandLine =>
    IF Matching = {}
    THEN /\ calls = <<>>
         /\ stdout # <<>>
         /\ stdout[1] = <<"Unknown command: ">> \o FirstToken
    ELSE /\ Len(calls) = 1
         /\ calls[1].cmd = Winner

\* Three commands match the line, two of them with names of the same
\* greatest length, and the first registered of these two was executed.
C1_Witness ==
  /\ CommandLine
  /\ Cardinality(Matching) = 3
  /\ \E i, k \in Matching : i < k /\ Len(commands[i].name) = Len(commands[k].name)
                            /\ calls = <<ExecuteCall(i, calls[1].args)>>
                            /\ \E j \in Matching : Len(commands[j].name) < Len(commands[i].name)

\* The three spellings of w used to vary the case of its letters.
CaseVariants(w) ==
  { toUpperCase(w), toLowerCase(w),
    [k \in 1..Len(w) |-> IF k % 2 = 1 THEN UpperChar(w[k]) ELSE LowerChar(w[k])] }

\* What a call is, apart from how it ended.
CallOf(call) == [op |-> call.op, cmd |-> call.cmd, args |-> call.args]

\* The text that follows the name of command i in the trimmed line.
RestAfter(i) ==
  LET t == Trimmed
  IN SubSeq(t, Len(commands[i].name) + 1, Len(t))

\* The positions of s where a whitespace-delimited token starts, the token
\* that starts at a, and the tokens of s in the order of the text.
TokenStarts(s) ==
  {a \in 1..Len(s) : s[a] \notin WhiteSpace /\ (a = 1 \/ s[a - 1] \in WhiteSpace)}

TokenAt(s, a) ==
  SubSeq(s, a, CHOOSE e \in a..Len(s) :
                 /\ e = Len(s) \/ s[e + 1] \in WhiteSpace
                 /\ \A k \in a..e : s[k] \notin WhiteSpace)

TokensOf(s) ==
  LET starts == TokenStarts(s)
  IN [i \in 1..Cardinality(starts) |->
        TokenAt(s, CHOOSE a \in starts : Cardinality({b \in starts : b <= a}) = i)]

\* C2: with the letters of the command-name part of the line put in another
\* case, the router resolves the same command and passes the same argument
\* list, whose arguments are those typed, in their own case.
C2_CaseInsensitive ==
  (CommandLine /\ calls # <<>>) =>
    /\ \A v \in CaseVariants(SubSeq(Trimmed, 1, Len(commands[calls[1].cmd].name))) :
         LET r == command(v \o RestAfter(calls[1].cmd))
         IN /\ Len(r.call) = Len(calls)
            /\ \A k \in 1..Len(calls) : CallOf(r.call[k]) = CallOf(calls[k])
    /\ \A k \in 1..Len(calls) :
         \A a \in 1..Len(calls[k].args) :
           \E b \in TokenStarts(Trimmed) : TokenAt(Trimmed, b) = calls[k].args[a]

\* A command typed in a case that is not that of its name was executed with
\* an argument that has a capital letter.
C2_Witness ==
  /\ CommandLine
  /\ Len(calls) = 1
  /\ calls[1].op = "execute"
  /\ SubSeq(Trimmed, 1, Len(commands[calls[1].cmd].name)) # commands[calls[1].cmd].name
  /\ \E a \in 1..Len(calls[1].args) : calls[1].args[a] # toLowerCase(calls[1].args[a])

\* The commands whose name starts with the marker, and the line being the
\* name of command i without the marker, in any case.
MarkerCommands == {i \in 1..Len(commands) : commands[i].name # <<>> /\ commands[i].name[1] = "."}

TypedWithoutMarker(i) == EqualsIgnoringCase(Trimmed, Tail(commands[i].name))

\* C3: the name of a marker-prefixed command typed without its marker, in any
\* case, executes nothing; the router prints "Unknown command: <input>" and
\* then "Did you mean: <canonical name> ?".
C3_MarkerRequired ==
  Routed =>
    \A i \in MarkerCommands :
      TypedWithoutMarker(i) =>
        /\ calls = <<>>
        /\ stdout = << <<"Unknown command: ">> \o Trimmed,
                       <<"Did you mean: ">> \o commands[i].name \o <<" ?">> >>
        /\ stderr = <<>>

\* "EXIT"-like input: a marker command's name without the marker, typed with
\* capital letters and surrounded by whitespace, was routed.
C3_Witness ==
  /\ Routed
  /\ \E i \in MarkerCommands : TypedWithoutMarker(i)
  /\ Trimmed # toLowerCase(Trimmed)
  /\ Trimmed # line

\* The outcomes of routing one line.
NoOp == calls = <<>> /\ stdout = <<>> /\ stderr = <<>>
GlobalHelp == calls = <<>> /\ stdout # <<>> /\ stdout[1] = <<"Available commands:">>
CommandHelp == \E k \in 1..Len(calls) : calls[k].op = "help"
Executed == \E k \in 1..Len(calls) : calls[k].op = "execute"
UnknownReport ==
  /\ calls = <<>>
  /\ stdout # <<>>
  /\ stdout[1][1] \in {"Unknown command: ", "Unknown command for help: "}

Outcomes ==
  {o \in {"no-op", "global help", "command help", "executed", "unknown"} :
     \/ o = "no-op" /\ NoOp
     \/ o = "global help" /\ GlobalHelp
     \/ o = "command help" /\ CommandHelp
     \/ o = "executed" /\ Executed
     \/ o = "unknown" /\ UnknownReport}

\* C4: routing a line has exactly one outcome among no-op, global help, help
\* of one command, execution of one command and unknown-command report; at
\* most one help or execute call is made; a line that is blank after trimming
\* is the no-op and prints nothing.
C4_OneOutcome ==
  Routed =>
    /\ Cardinality(Outcomes) = 1
    /\ Len(calls) <= 1
    /\ Trimmed = <<>> => NoOp

\* A line with a command, an argument and then a help token was routed: the
\* help of the command was shown and nothing else happened.
C4_Witness ==
  /\ CommandLine
  /\ Outcomes = {"command help"}
  /\ Matching # {}
  /\ Len(TokensOf(RestAfter(Winner))) = 2
  /\ toLowerCase(TokensOf(RestAfter(Winner))[1]) \notin HelpTokens

\* C5: the argument list passed to execute is the list of the whitespace-
\* delimited tokens of the text after the matched name, in their order; it
\* holds no empty string and is empty when only whitespace follows the name.
C5_Arguments ==
  Routed =>
    \A k \in 1..Len(calls) :
      calls[k].op = "execute" =>
        /\ calls[k].args = TokensOf(RestAfter(calls[k].cmd))
        /\ \A a \in 1..Len(calls[k].args) : calls[k].args[a] # <<>>

\* A command was executed with two different arguments typed with runs of
\* whitespace before, between and after them.
C5_Witness ==
  /\ Routed
  /\ Len(calls) = 1
  /\ calls[1].op = "execute"
  /\ Len(calls[1].args) = 2
  /\ calls[1].args[1] # calls[1].args[2]
  /\ line[Len(line)] \in WhiteSpace
  /\ Len(RestAfter(calls[1].cmd)) > Len(calls[1].args[1]) + Len(calls[1].args[2]) + 2

\* C6: when a command is matched and any token after its name is a help token
\* (help, --help, -h or ?, in any case), the help of that command is called
\* and execute is not; execute never receives a help token as an argument.
C6_HelpFlag ==
  Routed =>
    /\ \A k \in 1..Len(calls) :
         calls[k].op = "execute" =>
           \A a \in 1..Len(calls[k].args) : toLowerCase(calls[k].args[a]) \notin HelpTokens
    /\ (CommandLine /\ Matching # {}
        /\ \E a \in TokenStarts(RestAfter(Winner)) :
              toLowerCase(TokenAt(RestAfter(Winner), a)) \in HelpTokens)
       => calls = <<HelpCall(Winner)>>

\* A command was typed with a path and then "-H": its help was called.
C6_Witness ==
  /\ CommandLine
  /\ Matching # {}
  /\ calls = <<HelpCall(Winner)>>
  /\ Len(TokensOf(RestAfter(Winner))) = 2
  /\ TokensOf(RestAfter(Winner))[2] = <<"-", "H">>
  /\ toLowerCase(TokensOf(RestAfter(Winner))[1]) \notin HelpTokens

\* The tokens that follow the first one, and the help target they name: these
\* tokens joined by single spaces.
HelpRest ==
  LET t == Trimmed
  IN TokensOf(SubSeq(t, Len(FirstTokenOf(t)) + 1, Len(t)))

HelpTarget == joinSp(HelpRest)

HelpLine == Routed /\ Trimmed # <<>> /\ FirstIsHelp

\* The commands whose canonical name, marker included, is the target when
\* the case of letters is ignored.
NamedByTarget == {i \in 1..Len(commands) : EqualsIgnoringCase(commands[i].name, HelpTarget)}

\* C7 (as amended): for a line "<help token> <target>" the router calls the
\* help of the first registered command whose canonical name, leading marker
\* included, equals the target when the case of letters is ignored; there is
\* no prefix matching and no stripping of the marker, and no help is called
\* when no command has such a name.
C7_HelpTargetExact ==
  (HelpLine /\ HelpRest # <<>>) =>
    IF NamedByTarget = {}
    THEN calls = <<>>
    ELSE calls = <<HelpCall(CHOOSE i \in NamedByTarget : \A k \in NamedByTarget : i <= k)>>

\* C7 (as stated): a command is found exactly when its normalized name
\* (lowercased, one leading marker stripped) equals the normalized target.
C7_NormalizedNames ==
  (HelpLine /\ HelpRest # <<>>) =>
    ((\E i \in 1..Len(commands) :
         normalizeName(commands[i].name) = normalizeName(HelpTarget))
     <=> (\E k \in 1..Len(commands) :
            /\ calls = <<HelpCall(k)>>
            /\ normalizeName(commands[k].name) = normalizeName(HelpTarget)))

\* Help was asked for a marker-prefixed command named in capital letters
\* with its marker, and the help of that command was called.
C7_Witness ==
  /\ HelpLine
  /\ \E i \in MarkerCommands :
        /\ calls = <<HelpCall(i)>>
        /\ HelpTarget # commands[i].name
        /\ HelpTarget = toUpperCase(commands[i].name)

\* C8: a line whose first token is a help token never calls execute; with no
\* other token it prints the global help; with a target that is the canonical
\* name of a command (of the first registered one, should several have the
\* name) it prints the help of that command; otherwise it prints "Unknown
\* command for help: <target>" and then one suggestion line, the one found
\* for the first word of the target.
C8_HelpFirst ==
  HelpLine =>
    /\ ~Executed
    /\ HelpRest = <<>> => GlobalHelp
    /\ \A i \in 1..Len(commands) :
         (/\ HelpTarget = commands[i].name
          /\ \A k \in 1..(i - 1) : ~EqualsIgnoringCase(commands[k].name, commands[i].name))
         => /\ calls = <<HelpCall(i)>>
            /\ stdout = commands[i].helpText
    /\ (HelpRest # <<>> /\ NamedByTarget = {}) =>
         /\ calls = <<>>
         /\ stdout = << <<"Unknown command for help: ">> \o HelpTarget >>
                     \o suggestClosest(HelpRest[1])
         /\ Len(stdout) = 2

\* Help was asked for a target of two words that names no command: the
\* suggestion printed is the one for the first word, which is not the one
\* for the whole target.
C8_Witness ==
  /\ HelpLine
  /\ Len(HelpRest) = 2
  /\ UnknownReport
  /\ Len(stdout) = 2
  /\ <<stdout[2]>> = suggestClosest(HelpRest[1])
  /\ <<stdout[2]>> # suggestClosest(HelpTarget)

\* C9: an error raised by the execute of a command is caught in
\* Router.command: "Command failed: <details>" is written to the error
\* channel, Router.command returns, the process goes on and the next prompt
\* can be shown.
C9_ErrorCaught ==
  Routed =>
    \A k \in 1..Len(calls) :
      calls[k].ended = "throw" =>
        /\ status = "done"
        /\ running
        /\ stderr # <<>>
        /\ Len(stderr[Len(stderr)]) = 3
        /\ SubSeq(stderr[Len(stderr)], 1, 2) = <<"Command failed:", " ">>
        /\ ENABLED Prompt

\* The execute of a command raised an error.
C9_Witness ==
  /\ Routed
  /\ Len(calls) = 1
  /\ calls[1].op = "execute"
  /\ calls[1].ended = "throw"
  /\ calls[1].args # <<>>

\* The line of the global help for command c.
ListingLine(c) == <<"  ">> \o c.name \o <<" - ">> \o c.description

\* C10: the global help is "Available commands:", then the label of the
\* system commands and one line "  <name> - <description>" for each of them
\* in registration order, then the label of the database commands and one
\* such line for each of them in registration order, then the two lines of
\* tips; every registered command has exactly one line.
C10_GlobalHelp ==
  (HelpLine /\ HelpRest = <<>>) =>
    LET ns == Len(systemCommands)
        nd == Len(databaseCommands)
    IN /\ calls = <<>>
       /\ Len(stdout) = ns + nd + 5
       /\ stdout[1] = <<"Available commands:">>
       /\ stdout[2] = <<"\nSystem commands:">>
       /\ \A i \in 1..ns : stdout[2 + i] = ListingLine(systemCommands[i])
       /\ stdout[3 + ns] = <<"\nDatabase commands:">>
       /\ \A i \in 1..nd : stdout[3 + ns + i] = ListingLine(databaseCommands[i])
       /\ stdout[4 + ns + nd] = <<"\nTips:">>
       /\ stdout[5 + ns + nd] =
            <<"  Type \"help <command>\" or \"<command> --help\" to learn more.">>
       /\ \A i \in 1..Len(commands) :
            Cardinality({k \in 1..Len(stdout) : stdout[k] = ListingLine(commands[i])}) = 1

\* The global help was printed for a registry with several commands in a
\* category.
C10_Witness ==
  /\ HelpLine
  /\ HelpRest = <<>>
  /\ GlobalHelp
  /\ Len(databaseCommands) > 1
  /\ Len(stdout) = Len(commands) + 5

(***************************************************************************)
(* Properties of the suggestions                                           *)
(***************************************************************************)
\* The word a suggestion is sought for: the first token of an unknown
\* command, the first word of an unknown help target; and its normal form.
SuggestSeed == IF FirstIsHelp THEN HelpRest[1] ELSE FirstToken

Needle == normalizeName(SuggestSeed)

\* Router.command reported an unknown command or an unknown help target.
Unmatched == Routed /\ UnknownReport

\* The edit distance from the needle to the normal form of each name.
Distances ==
  LET n == Needle
  IN [i \in 1..Len(commands) |-> levenshtein(n, normalizeName(commands[i].name))]

\* The first registered of the commands at minimum distance, d being the
\* distances.
ClosestIn(d) ==
  CHOOSE i \in DOMAIN d : \A k \in DOMAIN d : d[i] < d[k] \/ (d[i] = d[k] /\ i <= k)

SuggestionOf(i) == <<"Did you mean: ">> \o commands[i].name \o <<" ?">>

GenericHint == <<"Type \"help\" to see available commands.">>

\* C11: for an input that matches nothing, the command at minimum edit
\* distance between the normalized input and the normalized names is picked,
\* the first registered on a tie; when that distance is at most 3 the one
\* line printed after the report is "Did you mean: <canonical name> ?".
C11_ClosestSuggestion ==
  Unmatched =>
    \E d \in {Distances} :
      d[ClosestIn(d)] <= 3 =>
        /\ Len(stdout) = 2
        /\ stdout[2] = SuggestionOf(ClosestIn(d))

\* Two commands of different names are at the same minimum distance, which
\* is at most 3, and the first registered of them was suggested.
C11_Witness ==
  /\ Unmatched
  /\ \E d \in {Distances} :
        /\ d[ClosestIn(d)] <= 3
        /\ \E k \in DOMAIN d :
              /\ k > ClosestIn(d)
              /\ d[k] = d[ClosestIn(d)]
              /\ commands[k].name # commands[ClosestIn(d)].name
        /\ stdout[2] = SuggestionOf(ClosestIn(d))

\* The commands whose normalized name starts with the needle and a space.
PrefixCandidates ==
  LET n == Needle
  IN {i \in 1..Len(commands) :
        LET m == normalizeName(commands[i].name)
        IN /\ Len(m) > Len(n)
           /\ m[Len(n) + 1] = SP
           /\ \A k \in 1..Len(n) : m[k] = n[k]}

\* C12: when every command is more than 3 edits away, the suggestion is the
\* first registered command whose normalized name starts with the normalized
\* input and a space, provided the normalized input has at least 3
\* characters; otherwise the generic hint is printed; in every case exactly
\* one line follows the report.
C12_PrefixSuggestion ==
  Unmatched =>
    /\ Len(stdout) = 2
    /\ \E d \in {Distances} :
         (\A i \in DOMAIN d : d[i] > 3) =>
           IF Len(Needle) >= 3 /\ PrefixCandidates # {}
           THEN stdout[2] = SuggestionOf(CHOOSE i \in PrefixCandidates :
                                           \A k \in PrefixCandidates : i <= k)
           ELSE stdout[2] = GenericHint

\* A word of two letters that is the first word of a command's name, more
\* than 3 edits from every name, got the generic hint.
C12_Witness ==
  /\ Unmatched
  /\ \A i \in DOMAIN Distances : Distances[i] > 3
  /\ Len(Needle) < 3
  /\ PrefixCandidates # {}
  /\ stdout = << <<"Unknown command: ">> \o FirstToken, GenericHint >>

(***************************************************************************)
(* Properties of the header codec                                          *)
(***************************************************************************)
\* "LiteCoreDB v1" in ASCII.
MagicBytes == <<76, 105, 116, 101, 67, 111, 114, 101, 68, 66, 32, 118, 49>>

\* The header is as createHeader returned it.
Untouched == codecStep \in {"created", "validated"} /\ alters = 0

\* C13: isValidHeader(createHeader(p)) is true for every page size p from 1
\* to 65535, and false for p = 0.
C13_RoundTrip ==
  (codecStep = "validated" /\ Untouched) =>
    /\ requested \in 1..65535 => valid = TRUE
    /\ requested = 0 => valid = FALSE

\* A header made for a page size whose low byte is zero was found valid.
C13_Witness ==
  /\ codecStep = "validated"
  /\ Untouched
  /\ requested \in 1..65535
  /\ requested % 256 = 0
  /\ valid = TRUE

\* C14: createHeader(pageSize) returns 100 bytes: the 13 bytes of the magic
\* string in ASCII, NUL bytes up to offset 16, pageSize mod 65536 as an
\* unsigned 16-bit little-endian integer at offsets 16 and 17, and zero from
\* offset 18 on.
C14_HeaderLayout ==
  Untouched =>
    /\ Len(header) = 100
    /\ \A k \in 1..13 : header[k] = MagicBytes[k]
    /\ \A k \in 14..16 : header[k] = 0
    /\ header[17] \in 0..255
    /\ header[18] \in 0..255
    /\ header[17] + 256 * header[18] = requested % 65536
    /\ \A k \in 19..100 : header[k] = 0

\* A header was made for a page size that does not fit in 16 bits and has
\* both of its low bytes non-zero.
C14_Witness ==
  /\ Untouched
  /\ requested > 65535
  /\ header[17] > 0
  /\ header[18] > 0

\* The bytes b without the NUL bytes at their end.
RECURSIVE WithoutTrailingNul(_)
WithoutTrailingNul(b) ==
  IF b # <<>> /\ b[Len(b)] = 0 THEN WithoutTrailingNul(SubSeq(b, 1, Len(b) - 1)) ELSE b

\* C15: isValidHeader(buffer) is true exactly when the buffer has at least
\* 18 bytes, its bytes [0,16) without their trailing NUL bytes are the magic
\* string, and the unsigned little-endian 16-bit value at offsets 16 and 17
\* is greater than zero; the bytes from offset 18 on have no influence.
C15_ValidExactly ==
  codecStep = "validated" =>
    (valid = TRUE <=>
       /\ Len(header) >= 18
       /\ WithoutTrailingNul(SubSeq(header, 1, 16)) = MagicBytes
       /\ header[17] + 256 * header[18] > 0)

\* A buffer whose first byte is the first byte of the magic string with its
\* highest bit set was found valid.
C15_Witness ==
  /\ codecStep = "validated"
  /\ valid = TRUE
  /\ header[1] = MagicBytes[1] + 128


\* The words of a text in lower case, in the order of the text.
WordsOf(s) ==
  LET ts == TokensOf(s)
  IN [k \in DOMAIN ts |-> toLowerCase(ts[k])]

MultiWord(i) == Len(WordsOf(commands[i].name)) > 1

\* What follows the help token in the line, as typed.
TypedTarget ==
  LET t == Trimmed
  IN trim(SubSeq(t, Len(FirstTokenOf(t)) + 1, Len(t)))

\* The same words with the same whitespace between them, typed as a command
\* with one argument.
TypedAsCommand == command(TypedTarget \o <<SP>> \o w_db)

\* C29: the help path and the execution path recognise multi-word command
\* names consistently: for every multi-word command and every run of
\* whitespace between its words, "help <w1><ws><w2>" finds the command if and
\* only if "<w1><ws><w2> <args>" resolves to that same command.
C29_HelpAndExecutionAgree ==
  (HelpLine /\ HelpRest # <<>>) =>
    LET r == TypedAsCommand
        words == WordsOf(TypedTarget)
    IN \A i \in 1..Len(commands) :
         (MultiWord(i) /\ words = WordsOf(commands[i].name)) =>
           (calls = <<HelpCall(i)>>
              <=> /\ Len(r.call) = 1
                  /\ CallOf(r.call[1]) = CallOf(ExecuteCall(i, <<w_db>>)))

\* "help attach<TAB>database" showed the help of ATTACH DATABASE, and
\* "attach<TAB>database D.db" is an unknown command.
C29_Witness ==
  /\ HelpLine
  /\ line = w_help \o <<SP>> \o w_attach \o <<TAB>> \o w_database
  /\ Len(calls) = 1
  /\ calls[1].op = "help"
  /\ commands[calls[1].cmd].name = AttachCommand.name
  /\ TypedAsCommand.call = <<>>
  /\ TypedAsCommand.out[1] = <<"Unknown command: ">> \o w_attach

(***************************************************************************)
(* Properties of the database file helpers and of AttachCommand.execute    *)
(***************************************************************************)
\* The last call was ensureDatabaseFile(lastOp.arg).
Ensured == lastOp.name = "ensureDatabaseFile"

\* A file stood at the path before the last call.
FileBefore(abs) == abs \in DOMAIN before.files

\* Nothing stood at the path before the last call, and the directory the path
\* lies in was there.
FreeBefore(abs) ==
  /\ ~FileBefore(abs)
  /\ ~isDirectory(abs, before.files)
  /\ isDirectory(dirname(abs), before.files)

\* The files other than the one at the path are as before the last call.
OthersKept(abs) ==
  /\ DOMAIN files \ {abs} = DOMAIN before.files \ {abs}
  /\ \A f \in DOMAIN files \ {abs} : files[f] = before.files[f]

\* C16: ensureDatabaseFile on a path where nothing exists (in a directory
\* that does) creates a file whose content is exactly createHeader(4096):
\* 100 bytes, the first 16 without the trailing NULs equal to the magic
\* string, bytes [16,18) decoding to 4096; it throws nothing and touches no
\* other file.
C16_CreatesHeader ==
  (Ensured /\ FreeBefore(lastOp.arg)) =>
    /\ thrown = <<>>
    /\ lastOp.arg \in DOMAIN files
    /\ OthersKept(lastOp.arg)
    /\ LET content == files[lastOp.arg]
       IN /\ content = createHeader(4096)
          /\ Len(content) = 100
          /\ WithoutTrailingNul(SubSeq(content, 1, 16)) = MagicBytes
          /\ content[17] + 256 * content[18] = 4096
          /\ \A i \in 19..100 : content[i] = 0

C16_Witness ==
  /\ Ensured
  /\ FreeBefore(lastOp.arg)
  /\ lastOp.arg = HOME \o <<w_db>>
  /\ lastOp.arg \in DOMAIN files
  /\ DbPath \in DOMAIN files
  /\ ops = 2


TooSmall == <<"Invalid database header: file too small">>

HeaderInvalid == <<"Invalid database header: magic string mismatch or bad page size">>

\* The first HEADER_SIZE bytes of what a file holds, as the Buffer that
\* isValidHeader is given.
HeaderOf(content) ==
  [i \in 1..HEADER_SIZE |-> IF i <= Len(content) THEN content[i] ELSE 0]

\* C17: ensureDatabaseFile on an existing file never modifies it: with fewer
\* than 18 bytes it fails as "file too small", with 18 bytes or more and a
\* header isValidHeader rejects it fails as "header invalid", and with a
\* valid header it succeeds with no effect.
C17_ExistingFileKept ==
  (Ensured /\ FileBefore(lastOp.arg)) =>
    LET content == before.files[lastOp.arg]
    IN /\ files = before.files
       /\ session = before.session
       /\ stdout = <<>> /\ stderr = <<>>
       /\ Len(content) < 18 => thrown = TooSmall
       /\ (Len(content) >= 18 /\ ~isValidHeader(HeaderOf(content))) => thrown = HeaderInvalid
       /\ (Len(content) >= 18 /\ isValidHeader(HeaderOf(content))) => thrown = <<>>

C17_Witness ==
  /\ Ensured
  /\ lastOp.arg = DbPath
  /\ FileBefore(DbPath)
  /\ Len(before.files[DbPath]) = 17
  /\ thrown = TooSmall
  /\ files = before.files


\* The last call was AttachCommand.execute(lastOp.arg).
Attached == lastOp.name = "execute"

\* The path typed, "" when there is none.
Url == IF lastOp.arg # <<>> THEN lastOp.arg[1] ELSE <<>>

\* The path is missing or has the shape of a flag.
UsageError ==
  \/ Url = <<>>
  \/ Len(Url) >= 2 /\ SubSeq(Url, 1, 2) = <<"-", "-">>
  \/ Url = <<"-", "h">>
  \/ Url = <<"?">>

\* The file the path typed stands for.
Target == resolveUserPath(Url)

\* Why the file cannot be attached, <<>> if it can: it is too small, its
\* header is invalid, its place is taken by a directory, or a regular file
\* stands where its directory should be.
Failure ==
  IF FileBefore(Target)
  THEN IF Len(before.files[Target]) < 18 THEN TooSmall
       ELSE IF ~isValidHeader(HeaderOf(before.files[Target])) THEN HeaderInvalid
       ELSE <<>>
  ELSE IF isDirectory(Target, before.files)
       THEN <<"EISDIR: illegal operation on a directory, read">>
       ELSE IF \E n \in 1..(Len(Target) - 1) : FileBefore(SubSeq(Target, 1, n))
            THEN <<"ENOTDIR: not a directory, mkdir">>
            ELSE <<>>

NotAttached == Attached /\ (UsageError \/ Failure # <<>>)

NoAttachedLine == \A i \in DOMAIN stdout : stdout[i][1] # "Attached database: "

SessionKept ==
  /\ session.dbPath = before.session.dbPath
  /\ session.dbName = before.session.dbName

\* C18, as stated: when ATTACH DATABASE does not succeed (usage error, file
\* too small, invalid header, file system failure) dbPath and dbName are as
\* before, no "Attached database" line is printed, and the failure is
\* reported on the error channel without being thrown.
C18_FailureOnErrorChannel ==
  NotAttached =>
    /\ SessionKept
    /\ NoAttachedLine
    /\ stderr # <<>>
    /\ thrown = <<>>

\* C18, amended: when ATTACH DATABASE does not succeed, dbPath and dbName are
\* as before, no file changes, no "Attached database" line is printed and
\* nothing is thrown; a usage error prints the two usage lines on standard
\* output and nothing on the error channel, any other failure prints
\* "Failed to attach database: <message>" on the error channel and nothing
\* on standard output.
C18_FailureReported ==
  NotAttached =>
    /\ SessionKept
    /\ files = before.files
    /\ NoAttachedLine
    /\ thrown = <<>>
    /\ UsageError =>
         /\ stdout = << <<"Usage: ATTACH DATABASE <path|url>">>,
                        <<"Example: ATTACH DATABASE ./db.db">> >>
         /\ stderr = <<>>
    /\ ~UsageError =>
         /\ stdout = <<>>
         /\ stderr = << <<"Failed to attach database: ">> \o Failure >>

C18_Witness ==
  /\ NotAttached
  /\ ~UsageError
  /\ before.session.dbPath = << HOME \o <<w_db>> >>
  /\ Target = DbPath
  /\ Failure = HeaderInvalid
  /\ stderr = << <<"Failed to attach database: ">> \o HeaderInvalid >>
  /\ SessionKept


\* For each path typed: the absolute path it stands for when the working
\* directory is /cwd and the home directory /home, and the file's basename
\* without the extension.
Expectations ==
  { [url |-> w_db,
     path |-> << <<"c", "w", "d">>, <<"D", ".", "d", "b">> >>, name |-> <<"D">>],
    [url |-> <<".", "/">> \o w_db,
     path |-> << <<"c", "w", "d">>, <<"D", ".", "d", "b">> >>, name |-> <<"D">>],
    [url |-> <<".", ".", "/", "c", "w", "d", "/">> \o w_db,
     path |-> << <<"c", "w", "d">>, <<"D", ".", "d", "b">> >>, name |-> <<"D">>],
    [url |-> <<"~", "/">> \o w_db,
     path |-> << <<"h", "o", "m", "e">>, <<"D", ".", "d", "b">> >>, name |-> <<"D">>],
    [url |-> <<"~">>,
     path |-> << <<"h", "o", "m", "e">> >>, name |-> <<"h", "o", "m", "e">>],
    [url |-> <<"s", "u", "b", "/", "a", ".", "b", ".", "c">>,
     path |-> << <<"c", "w", "d">>, <<"s", "u", "b">>, <<"a", ".", "b", ".", "c">> >>,
     name |-> <<"a", ".", "b">>],
    [url |-> w_db \o <<"/", "x">>,
     path |-> << <<"c", "w", "d">>, <<"D", ".", "d", "b">>, <<"x">> >>, name |-> <<"x">>],
    [url |-> <<".", "d", "b">>,
     path |-> << <<"c", "w", "d">>, <<".", "d", "b">> >>, name |-> <<>>],
    [url |-> <<"/", "t", "m", "p", "/", "n", "o", "e", "x", "t">>,
     path |-> << <<"t", "m", "p">>, <<"n", "o", "e", "x", "t">> >>,
     name |-> <<"n", "o", "e", "x", "t">>] }

AttachSucceeded == Attached /\ ~UsageError /\ Failure = <<>>

\* C19: when ATTACH DATABASE <path> succeeds it prints "Attached database:
\* <path>" with the path as typed, not resolved, and sets session.dbPath to
\* the resolved absolute path and session.dbName to the file's basename
\* without its extension; the file is there afterwards.
C19_AttachSuccess ==
  AttachSucceeded =>
    /\ stdout = << <<"Attached database: ">> \o Url >>
    /\ stderr = <<>>
    /\ thrown = <<>>
    /\ \E e \in Expectations :
          /\ e.url = Url
          /\ session.dbPath = <<e.path>>
          /\ session.dbName = <<e.name>>
          /\ e.path \in DOMAIN files

C19_Witness ==
  /\ AttachSucceeded
  /\ Url = <<"~", "/">> \o w_db
  /\ before.session.dbName = << <<"a", ".", "b">> >>
  /\ stdout = << <<"Attached database: ", "~", "/">> \o w_db >>
  /\ session.dbPath = << << <<"h", "o", "m", "e">>, <<"D", ".", "d", "b">> >> >>
  /\ session.dbName = << <<"D">> >>


\* ATTACH DATABASE was called with a path at which a file stood.
AttachedExisting == Attached /\ ~UsageError /\ FileBefore(Target)

OpenedWithoutError ==
  /\ stdout = << <<"Attached database: ">> \o Url >>
  /\ stderr = <<>>
  /\ thrown = <<>>

C21_Usage ==
  (Attached /\ UsageError) =>
    /\ Len(stdout) = 2
    /\ stdout[1] = <<"Usage: ATTACH DATABASE <path|url>">>
    /\ stdout[2] = <<"Example: ATTACH DATABASE ./db.db">>
    /\ thrown = <<>>
    /\ files = before.files
    /\ session = before.session

C21_Witness ==
  /\ Attached
  /\ Url = <<"?">>
  /\ before.session.dbPath # <<>>
  /\ Len(stdout) = 2
  /\ session = before.session
  /\ files = before.files


\* A successful ATTACH DATABASE has occurred.
DatabaseAttached == session.dbPath # <<>>

\* C22: whenever a database is attached the prompt computed for the next
\* input has the form "LiteCore - <dbName>> ", and the plain "LiteCore> "
\* prompt is shown only when no database is attached.
C22_PromptShowsName ==
  /\ DatabaseAttached =>
       computePrompt(session) = <<"\nLiteCore - ">> \o session.dbName[1] \o <<"> ">>
  /\ computePrompt(session) = <<"\nLiteCore> ">> => ~DatabaseAttached

\* ATTACH DATABASE .db succeeded and the prompt is the plain one.
C22_Witness ==
  /\ AttachSucceeded
  /\ Url = <<".", "d", "b">>
  /\ session.dbPath = << << <<"c", "w", "d">>, <<".", "d", "b">> >> >>
  /\ session.dbName = << <<>> >>
  /\ computePrompt(session) = <<"\nLiteCore> ">>


\* C26: every file handle opened by ensureDatabaseFile is closed before the
\* call returns or throws, on every path (success, short read, invalid
\* header, failing read): after any sequence of calls no handle is left open.
C26_HandlesClosed == openFds.opened = openFds.closed

\* A file too small and then a directory were opened, and both descriptors
\* were closed.
C26_Witness ==
  /\ Ensured
  /\ lastOp.arg = CWD
  /\ thrown = <<"EISDIR: illegal operation on a directory, read">>
  /\ before.op = [name |-> "ensureDatabaseFile", arg |-> DbPath]
  /\ before.thrown = TooSmall
  /\ openFds = [opened |-> 2, closed |-> 2]

\* C27: after any sequence of ATTACH DATABASE commands the session holds at
\* most one attachment: dbPath and dbName are both unset (no attach has
\* succeeded) or both describe the most recent successful attach; a failed
\* or usage-error attach leaves the earlier attachment in place, and a
\* successful attach replaces both fields together.
C27_OneAttachment ==
  /\ Len(session.dbPath) <= 1 /\ Len(session.dbName) <= 1
  /\ session.dbPath = <<>> <=> session.dbName = <<>>
  /\ session.dbPath # <<>> =>
        \E e \in Expectations :
           session.dbPath = <<e.path>> /\ session.dbName = <<e.name>>
  /\ lastOp.name = "none" => session.dbPath = <<>>
  /\ (NotAttached \/ Ensured) => SessionKept
  /\ AttachSucceeded =>
        \E e \in Expectations :
           e.url = Url /\ session.dbPath = <<e.path>> /\ session.dbName = <<e.name>>

\* A second successful attach replaced the path and the name of the first.
C27_Witness ==
  /\ AttachSucceeded
  /\ before.op.name = "execute"
  /\ before.session.dbPath = << << <<"c", "w", "d">>, <<"s", "u", "b">>,
                                   <<"a", ".", "b", ".", "c">> >> >>
  /\ before.session.dbName = << <<"a", ".", "b">> >>
  /\ session.dbPath = << << <<"t", "m", "p">>, <<"n", "o", "e", "x", "t">> >> >>
  /\ session.dbName = << <<"n", "o", "e", "x", "t">> >>

\* The call before the last one was the same call, and it succeeded.
SameCallAgain ==
  /\ before.op = lastOp
  /\ before.thrown = <<>>
  /\ Ensured \/ (~UsageError /\ before.session.dbPath = <<Target>>)

\* C28: once ensureDatabaseFile(path) has created the file, or found it
\* valid, a later ensureDatabaseFile(path) on the untouched file succeeds and
\* leaves it byte-identical; ATTACH DATABASE issued twice on the same new
\* path succeeds both times.
C28_CreateThenReopen ==
  SameCallAgain =>
    /\ files = before.files
    /\ thrown = <<>>
    /\ Ensured => lastOp.arg \in DOMAIN files
    /\ Attached =>
         /\ stdout = << <<"Attached database: ">> \o Url >>
         /\ stderr = <<>>
         /\ session.dbPath = <<Target>>
         /\ Target \in DOMAIN files

\* The file at ~/D.db, which no disk holds at the start, was created by a
\* first ensureDatabaseFile and reopened by a second.
C28_Witness ==
  /\ SameCallAgain
  /\ Ensured
  /\ lastOp.arg = HOME \o <<w_db>>
  /\ ops = 2
  /\ files[lastOp.arg] = createHeader(DEFAULT_PAGE_SIZE)
  /\ thrown = <<>>

(***************************************************************************)
(* Properties of monitoring                                                *)
(***************************************************************************)
\* Some line printed holds the path of the monitoring log.
LogPathPrinted ==
  \E i \in DOMAIN stdout : \E k \in DOMAIN stdout[i] :
     stdout[i][k] = getMonitoringFilePath[1]

\* ".monitoring false", ".monitoring off" or ".monitoring disable" was executed.
MonitoringSwitchedOff ==
  /\ lastOp.name = ".monitoring"
  /\ lastOp.arg # <<>>
  /\ toLowerCase(lastOp.arg[1]) \in { <<"f", "a", "l", "s", "e">>, <<"o", "f", "f">>,
                                      <<"d", "i", "s", "a", "b", "l", "e">> }

\* C23: executing .exit prints the monitoring log path before the process
\* terminates, and executing ".monitoring false" prints the monitoring log
\* path, whatever the monitoring state is.
C23_LogPathOnExit ==
  /\ (lastOp.name = ".exit" /\ ~running) => LogPathPrinted
  /\ MonitoringSwitchedOff => LogPathPrinted

\* .exit was executed while monitoring was off: the process has ended and
\* nothing was printed.
C23_Witness ==
  /\ lastOp.name = ".exit"
  /\ ~running
  /\ ~before.session.monitoringEnabled
  /\ stdout = <<>>


\* The lines of the log that are the CSV header row.
HeaderRows == {k \in DOMAIN logFile.lines : logFile.lines[k] = CSV_HEADER}

\* Every fs.appendFile call started has completed.
AllAppended == pending = <<>> /\ logged # <<>>

\* C30: after any sequence of logMetrics calls on a log that starts missing
\* or empty, calls made before the append of an earlier call completed
\* included, the log holds the CSV header row exactly once and as its first
\* line, followed by one row per call.
C30_HeaderOnce ==
  AllAppended =>
    /\ HeaderRows = {1}
    /\ Len(logFile.lines) = 1 + Len(logged)
    /\ \A r \in {logged[k] : k \in DOMAIN logged} :
          Cardinality({k \in DOMAIN logFile.lines : logFile.lines[k] = r})
            = Cardinality({k \in DOMAIN logged : logged[k] = r})

\* Two logMetrics calls were made before the first append completed: the log
\* holds the header row twice.
C30_Witness ==
  /\ AllAppended
  /\ Len(logged) = 2
  /\ logFile.lines = <<CSV_HEADER, logged[1], CSV_HEADER, logged[2]>>

(***************************************************************************)
(* Properties of levenshtein                                               *)
(***************************************************************************)
\* C24: levenshtein(a, b) equals levenshtein(b, a) for all strings a and b,
\* and levenshtein(a, a) is 0 for every string a.
C24_Symmetric ==
  lev.called => (lev.ab = lev.ba /\ lev.aa = 0)

C24_Witness ==
  /\ lev.called
  /\ lev.a = <<"a", "b", "a">>
  /\ lev.b = <<"b">>
  /\ lev.ab = 2
  /\ lev.ba = 2
  /\ lev.aa = 0

\* The unit-cost recurrence on the prefixes of a and b: dp[i][0] = i,
\* dp[0][j] = j, and otherwise the least of a deletion, an insertion and a
\* substitution (free when the characters are equal).
RECURSIVE dp(_, _, _, _)
dp(a, b, i, j) ==
  IF i = 0 THEN j
  ELSE IF j = 0 THEN i
  ELSE LET del == dp(a, b, i - 1, j) + 1
           ins == dp(a, b, i, j - 1) + 1
           sub == dp(a, b, i - 1, j - 1) + (IF a[i] = b[j] THEN 0 ELSE 1)
       IN IF del <= ins /\ del <= sub THEN del
          ELSE IF ins <= sub THEN ins ELSE sub

\* C25: for all strings a and b, empty ones included, levenshtein(a, b) is
\* the value dp[len(a)][len(b)] of the unit-cost recurrence, and it
\* satisfies the triangle inequality.
C25_EditDistance ==
  lev.called =>
    /\ lev.ab = dp(lev.a, lev.b, Len(lev.a), Len(lev.b))
    /\ lev.ac <= lev.ab + lev.bc

C25_Witness ==
  /\ lev.called
  /\ lev.a = <<"a", "b", "b">>
  /\ lev.b = <<>>
  /\ lev.c = <<"b", "a">>
  /\ lev.ab = 3
  /\ lev.bc = 2
  /\ lev.ac = 2

=============================================================================
